---- MODULE Spec2Model ----
(***************************************************************************)
(* Crypt-Talk: the seven-layer encryption engine (server/7_layer_encryption)*)
(* and the integration wrappers around it.                                 *)
(*                                                                         *)
(* Byte strings are sequences over 0..255 and every framing is modelled    *)
(* byte for byte.  The library primitives the code calls (SHA-256, HMAC,   *)
(* PBKDF2, AES, Fernet, the float logistic map) are replaced by small      *)
(* deterministic stand-ins of the same shape: same input fields, same      *)
(* output length, same framing.  Nothing below depends on their strength.  *)
(***************************************************************************)
EXTENDS Integers, Sequences, FiniteSets, TLC

VARIABLES
    profile,            \* SevenLayerEncryption.profile (utf-8 bytes of the name)
    config,             \* SevenLayerEncryption.config
    layer1,             \* ByteFrequencyMasker: substitution_table, inverse_table
    layer5,             \* RandomSwapper: last_permutation
    layer6,             \* NoiseEmbedder: last_pattern
    layer7,             \* IntegrityTagger: tag_size
    performance_stats,  \* SevenLayerEncryption.performance_stats
    now,                \* int(time.time())
    packet,             \* the packet held by the transport (<<>>: none)
    sent,               \* what the packet was made from
    result,             \* outcome of the last call
    trace,              \* the layer steps the last call ran, in order
    calls,              \* number of calls made so far
    threads,            \* the threads inside encrypt on the one shared instance
    pfs_manager,        \* PFSEncryptionIntegration: pfs.sessions and mongo_db, once built
    pfs_sessions,       \* the collection mongo_db.pfs_sessions
    never_restarted,    \* the integration of a process that was never restarted
    generated,          \* the private keys the key generator has drawn
    encrypted_messages, \* pfs_demo's encrypted_messages
    pfs_result,         \* the outcome of the last call on the integration
    conversation_timers,\* the collection mongo.db.conversation_timers
    messages,           \* the collection mongo.db.messages
    requests,           \* the add_message requests being served, one per sender thread
    cleanup,            \* the cleanup thread: where it is, its expired_list
    utcnow,             \* datetime.utcnow(), in minutes
    object_ids          \* the ObjectIds handed out so far

vars == <<profile, config, layer1, layer5, layer6, layer7, performance_stats,
          now, packet, sent, result, trace, calls, threads,
          pfs_manager, pfs_sessions, never_restarted, generated, encrypted_messages,
          pfs_result, conversation_timers, messages, requests, cleanup, utcnow,
          object_ids>>

timer_vars == <<conversation_timers, messages, requests, cleanup, utcnow, object_ids>>

pfs_vars == <<pfs_manager, pfs_sessions, never_restarted, generated, encrypted_messages,
              pfs_result>>

-----------------------------------------------------------------------------
(* Byte strings and struct.pack / struct.unpack                            *)

Min(a, b) == IF a < b THEN a ELSE b
Max(a, b) == IF a > b THEN a ELSE b

\* Python's s[a:b] for 0 <= a (0-based, half-open, clamped to the string).
Slice(s, a, b) ==
    IF a >= Min(b, Len(s)) THEN <<>> ELSE SubSeq(s, a + 1, Min(b, Len(s)))

\* Python's s[a:]
From(s, a) == Slice(s, a, Len(s))

\* bytes(f): the sequence f as a finished byte string (every element computed once)
Bytes(f) == f \o <<>>

\* TRUE, once v has been computed: loops test it on the state of the first half
\* of their range before running the second half on it.
Done(v) == v = v

\* bytes([v] * n)
Repeat(v, n) == Bytes([i \in 1..n |-> v])

\* s[::-1]
Reverse(s) == Bytes([i \in 1..Len(s) |-> s[Len(s) + 1 - i]])

RECURSIVE Xor(_, _)
\* a ^ b on non-negative integers
Xor(a, b) ==
    IF a = 0 THEN b
    ELSE IF b = 0 THEN a
    ELSE ((a + b) % 2) + 2 * Xor(a \div 2, b \div 2)

\* struct.pack('<H', n), struct.pack('<I', n), struct.pack('<Q', n); n < 2^31 here
PackH(n) == <<n % 256, (n \div 256) % 256>>
PackI(n) == <<n % 256, (n \div 256) % 256, (n \div 65536) % 256, (n \div 16777216) % 256>>
PackQ(n) == PackI(n) \o <<0, 0, 0, 0>>
\* struct.pack('>Q', n)
PackQBig(n) == Reverse(PackQ(n))

\* struct.unpack of little-endian fields.  A 32- or 64-bit value that does not
\* fit the checker's integers is reported as 2^30, above every length and
\* time of the model, so every comparison the code makes keeps its outcome.
UnpackH(b) == b[1] + 256 * b[2]
UnpackI(b) ==
    IF b[4] >= 64 THEN 1073741824
    ELSE b[1] + 256 * b[2] + 65536 * b[3] + 16777216 * b[4]
UnpackQ(b) ==
    IF \E i \in 5..8 : b[i] # 0 THEN 1073741824 ELSE UnpackI(SubSeq(b, 1, 4))

\* struct.unpack('<I', b)[0] % m, exact
UnpackIMod(b, m) ==
    ((((((b[4] % m) * 256 + b[3]) % m) * 256 + b[2]) % m) * 256 + b[1]) % m

-----------------------------------------------------------------------------
(* hashlib.sha256, hmac.new(..., sha256), PBKDF2: stand-ins.  The digest   *)
(* is 32 bytes; its first four bytes carry the byte sum and the position-  *)
(* weighted byte sum of the input (mod 65521), so changing one byte of the *)
(* input always changes the digest.                                        *)

RECURSIVE ByteSum(_, _, _)
ByteSum(d, lo, hi) ==
    IF lo > hi THEN 0
    ELSE IF lo = hi THEN d[lo]
    ELSE LET mid == (lo + hi) \div 2
         IN  (ByteSum(d, lo, mid) + ByteSum(d, mid + 1, hi)) % 65521

RECURSIVE WeightedSum(_, _, _)
WeightedSum(d, lo, hi) ==
    IF lo > hi THEN 0
    ELSE IF lo = hi THEN ((lo % 251) + 1) * d[lo]
    ELSE LET mid == (lo + hi) \div 2
         IN  (WeightedSum(d, lo, mid) + WeightedSum(d, mid + 1, hi)) % 65521

Sha256(d) ==
    LET digest(n, s1, s2) ==
            Bytes([j \in 1..32 |->
                CASE j = 1 -> s1 % 256
                  [] j = 2 -> s1 \div 256
                  [] j = 3 -> s2 % 256
                  [] j = 4 -> s2 \div 256
                  [] OTHER -> (s1 * j + s2 * (2 * j + 1) + n * (j + 3) + j * j) % 256])
    IN  digest(Len(d), ByteSum(d, 1, Len(d)), WeightedSum(d, 1, Len(d)))

\* hmac.new(key, msg, hashlib.sha256).digest(): H(opad-key || H(ipad-key || msg))
HmacSha256(key, msg) == Sha256(<<92>> \o key \o Sha256(<<54>> \o key \o msg))

-----------------------------------------------------------------------------
(* Outcomes: a call returns a value or raises.                             *)

Ok(v)  == [ok |-> TRUE, val |-> v, err |-> ""]
Err(e) == [ok |-> FALSE, val |-> <<>>, err |-> e]

-----------------------------------------------------------------------------
(* Layer 1: ByteFrequencyMasker (layer1_byte_mask.py)                      *)

\* ByteFrequencyMasker.__init__: two lists of 256 zeros.  A Python list t is a
\* sequence here, so t[b] is written t[b + 1].
L1_init == [substitution_table |-> Repeat(0, 256),
            inverse_table      |-> Repeat(0, 256)]

\* SHA-256 in counter mode over the seed, truncated to length bytes
L1_generate_prng_sequence(seed, length) ==
    LET nblocks == (length + 31) \div 32
        blocks  == Bytes([c \in 1..nblocks |-> Sha256(seed \o PackQ(c - 1))])
    IN  Bytes([p \in 1..length |-> blocks[((p - 1) \div 32) + 1][((p - 1) % 32) + 1]])

\* A step that copies entry j to entry i and loses entry i (a variant the
\* properties must tell from the code's)
L1_overwrite(sub_table, random_bytes, i) ==
    LET j == UnpackIMod(Slice(random_bytes, i * 4, (i + 1) * 4), i + 1)
    IN  [sub_table EXCEPT ![i + 1] = sub_table[j + 1]]

\* One Fisher-Yates step: j = random_int % (i + 1); swap entries i and j
L1_swap(sub_table, random_bytes, i) ==
    LET j == UnpackIMod(Slice(random_bytes, i * 4, (i + 1) * 4), i + 1)
    IN  [sub_table EXCEPT ![i + 1] = sub_table[j + 1], ![j + 1] = sub_table[i + 1]]

RECURSIVE L1_shuffle(_, _, _, _)
\* for i in range(hi, lo - 1, -1): swap step i   (the range is halved to keep
\* the evaluation shallow; the steps run in the code's order)
L1_shuffle(sub_table, random_bytes, hi, lo) ==
    IF hi < lo THEN sub_table
    ELSE IF hi = lo THEN L1_swap(sub_table, random_bytes, hi)
    ELSE LET mid   == (hi + lo) \div 2
             first == L1_shuffle(sub_table, random_bytes, hi, mid + 1)
         IN  IF Done(first) THEN L1_shuffle(first, random_bytes, mid, lo) ELSE first

RECURSIVE L1_invert(_, _, _, _)
\* for i in range(lo, hi + 1): inv_table[sub_table[i]] = i
L1_invert(sub_table, inv_table, lo, hi) ==
    IF hi < lo THEN inv_table
    ELSE IF hi = lo THEN [inv_table EXCEPT ![sub_table[lo + 1] + 1] = lo]
    ELSE LET mid   == (hi + lo) \div 2
             first == L1_invert(sub_table, inv_table, lo, mid)
         IN  IF Done(first) THEN L1_invert(sub_table, first, mid + 1, hi) ELSE first

\* seed_material = sha256(master_key + nonce + b"BYTE_MASK_LAYER1"); the
\* identity table shuffled on 256 * 4 PRNG bytes; its inverse
L1_create_substitution_table(master_key, nonce) ==
    LET BYTE_MASK_LAYER1 == <<66,89,84,69,95,77,65,83,75,95,76,65,89,69,82,49>>
        shuffled(random_bytes) ==
            L1_shuffle(Bytes([i \in 1..256 |-> i - 1]), random_bytes, 255, 1)
        tables(sub_table) ==
            [substitution_table |-> sub_table,
             inverse_table      |-> L1_invert(sub_table, Repeat(0, 256), 0, 255)]
    IN  tables(shuffled(L1_generate_prng_sequence(
                            Sha256(master_key \o nonce \o BYTE_MASK_LAYER1), 256 * 4)))

\* The argument checks every layer's encrypt makes first.
LayerArgError(data, master_key, nonce, empty) ==
    IF Len(master_key) < 32 THEN "Master key must be at least 32 bytes"
    ELSE IF Len(nonce) < 16 THEN "Nonce must be at least 16 bytes"
    ELSE IF Len(data) = 0 THEN empty
    ELSE ""

\* ByteFrequencyMasker.encrypt: the result and the layer object afterwards
L1_encrypt(self, plaintext, master_key, nonce) ==
    LET e == LayerArgError(plaintext, master_key, nonce, "Plaintext cannot be empty")
        substitute(t) ==
            [res  |-> Ok(Bytes([i \in 1..Len(plaintext) |->
                             t.substitution_table[plaintext[i] + 1]])),
             self |-> t]
    IN  IF e # "" THEN [res |-> Err(e), self |-> self]
        ELSE substitute(L1_create_substitution_table(master_key, nonce))

\* ByteFrequencyMasker.decrypt
L1_decrypt(self, ciphertext, master_key, nonce) ==
    LET e == LayerArgError(ciphertext, master_key, nonce, "Ciphertext cannot be empty")
        substitute(t) ==
            [res  |-> Ok(Bytes([i \in 1..Len(ciphertext) |->
                             t.inverse_table[ciphertext[i] + 1]])),
             self |-> t]
    IN  IF e # "" THEN [res |-> Err(e), self |-> self]
        ELSE substitute(L1_create_substitution_table(master_key, nonce))

-----------------------------------------------------------------------------
(* Layer 7: IntegrityTagger (layer7_integrity_tag.py)                      *)

FULL_TAG_SIZE  == 32
SHORT_TAG_SIZE == 16

\* IntegrityTagger.__init__(tag_size)
L7_init(tag_size) == [tag_size |-> tag_size]

L7_derive_integrity_key(master_key, nonce) ==
    LET LAYER7_INTEGRITY == <<76,65,89,69,82,55,95,73,78,84,69,71,82,73,84,89>>
        HMAC_INTEGRITY_KEY == <<72,77,65,67,95,73,78,84,69,71,82,73,84,89,95,75,69,89>>
        FINAL_ROUND == <<70,73,78,65,76,95,82,79,85,78,68>>
        integrity_context == LAYER7_INTEGRITY \o nonce \o HMAC_INTEGRITY_KEY
        final(intermediate_key) ==
            HmacSha256(intermediate_key,
                       integrity_context \o Slice(intermediate_key, 0, 16) \o FINAL_ROUND)
    IN  final(HmacSha256(master_key, integrity_context))

\* [version:1][nonce_len:1][nonce][timestamp:8][tag_size:1]
L7_create_header(nonce, timestamp, tag_size) ==
    <<1, Len(nonce)>> \o nonce \o PackQ(timestamp) \o <<tag_size>>

\* (nonce, timestamp, tag_size, header_length) or an error
L7_parse_header(data) ==
    IF Len(data) < 11 THEN Err("Invalid header: too short")
    ELSE IF data[1] # 1 THEN Err("Unsupported version")
    ELSE LET nonce_len       == data[2]
             timestamp_start == 2 + nonce_len
             tag_size_pos    == timestamp_start + 8
         IN  IF Len(data) < 2 + nonce_len + 8 + 1
             THEN Err("Invalid header: truncated data")
             ELSE Ok([nonce         |-> Slice(data, 2, 2 + nonce_len),
                      timestamp     |-> UnpackQ(Slice(data, timestamp_start,
                                                      timestamp_start + 8)),
                      tag_size      |-> data[tag_size_pos + 1],
                      header_length |-> tag_size_pos + 1])

L7_compute_integrity_tag(self, data, integrity_key) ==
    Slice(HmacSha256(integrity_key, data), 0, self.tag_size)

\* A verification that accepts every tag (a variant the properties must tell
\* from the code's)
L7_accept_any_tag(self, data, tag, integrity_key) == TRUE

\* A comparison that stops at the first byte that differs, as bytes.__eq__
\* does (a variant the properties must tell from the code's)
compare_early_exit(a, b) ==
    LET differ == {i \in 1..Min(Len(a), Len(b)) : a[i] # b[i]}
    IN  IF Len(a) # Len(b) THEN [equal |-> FALSE, steps |-> 0]
        ELSE IF differ = {} THEN [equal |-> TRUE, steps |-> Len(a)]
        ELSE [equal |-> FALSE, steps |-> CHOOSE i \in differ : \A j \in differ : i <= j]

RECURSIVE tscmp(_, _, _, _)
\* The loop of hmac.compare_digest: every byte of right is visited and the
\* differences are or-ed together; steps counts the bytes compared
tscmp(left, right, i, differs) ==
    IF i > Len(right) THEN [equal |-> ~differs, steps |-> i - 1]
    ELSE tscmp(left, right, i + 1, differs \/ left[i] # right[i])

\* hmac.compare_digest(a, b): when the lengths differ, b is compared with
\* itself and the outcome is False
compare_digest(a, b) ==
    IF Len(a) = Len(b) THEN tscmp(a, b, 1, FALSE) ELSE tscmp(b, b, 1, TRUE)

\* hmac.compare_digest(tag, expected_tag) after the length check
L7_verify_integrity_tag(self, data, tag, integrity_key) ==
    IF Len(tag) # self.tag_size THEN FALSE
    ELSE compare_digest(tag, L7_compute_integrity_tag(self, data, integrity_key)).equal

\* The bytes _verify_integrity_tag compares before it returns
L7_verify_steps(self, data, tag, integrity_key) ==
    IF Len(tag) # self.tag_size THEN 0
    ELSE compare_digest(tag, L7_compute_integrity_tag(self, data, integrity_key)).steps

\* (header, ciphertext, tag) or an error
L7_unpack_authenticated_data(self, authenticated_data) ==
    LET h == L7_parse_header(authenticated_data)
    IN  IF ~h.ok THEN h
        ELSE IF h.val.tag_size # self.tag_size THEN Err("Tag size mismatch")
        ELSE LET tag_start == Len(authenticated_data) - h.val.tag_size
             IN  IF tag_start <= h.val.header_length
                 THEN Err("Invalid data structure: no room for ciphertext")
                 ELSE Ok([header     |-> Slice(authenticated_data, 0, h.val.header_length),
                          ciphertext |-> Slice(authenticated_data, h.val.header_length,
                                               tag_start),
                          tag        |-> From(authenticated_data, tag_start)])

\* IntegrityTagger.encrypt; timestamp is int(time.time())
L7_encrypt(self, plaintext, master_key, nonce, timestamp) ==
    LET e      == LayerArgError(plaintext, master_key, nonce, "Plaintext cannot be empty")
        header == L7_create_header(nonce, timestamp, self.tag_size)
    IN  IF e # "" THEN Err(e)
        ELSE Ok(header \o plaintext
                    \o L7_compute_integrity_tag(self, header \o plaintext,
                                                L7_derive_integrity_key(master_key, nonce)))

\* IntegrityTagger.decrypt
L7_decrypt(self, ciphertext, master_key) ==
    LET e == LayerArgError(ciphertext, master_key, Repeat(0, 16),
                           "Ciphertext cannot be empty")
        verify(u) ==
            IF ~u.ok THEN u
            ELSE IF ~L7_verify_integrity_tag(
                         self, u.val.header \o u.val.ciphertext, u.val.tag,
                         L7_derive_integrity_key(master_key,
                                                 L7_parse_header(u.val.header).val.nonce))
                 THEN Err("Integrity verification failed: data has been tampered with")
            ELSE Ok(u.val.ciphertext)
    IN  IF e # "" THEN Err(e)
        ELSE verify(L7_unpack_authenticated_data(self, ciphertext))

-----------------------------------------------------------------------------
(* Layer 2: AESFernetLayer (layer2_aes_fernet.py) and the Fernet recipe of *)
(* the cryptography library: base64url(0x80 || timestamp:8 (big endian) || *)
(* iv:16 || AES-CBC ciphertext || HMAC:32).                                *)

\* The base64url alphabet: A-Z a-z 0-9 - _
B64Char(v) ==
    IF v < 26 THEN 65 + v
    ELSE IF v < 52 THEN 97 + (v - 26)
    ELSE IF v < 62 THEN 48 + (v - 52)
    ELSE IF v = 62 THEN 45 ELSE 95

\* The 6-bit value of a base64url character, 64 for any other byte
B64Val(c) ==
    IF c >= 65 /\ c <= 90 THEN c - 65
    ELSE IF c >= 97 /\ c <= 122 THEN c - 97 + 26
    ELSE IF c >= 48 /\ c <= 57 THEN c - 48 + 52
    ELSE IF c = 45 THEN 62
    ELSE IF c = 95 THEN 63 ELSE 64

\* base64.urlsafe_b64encode
urlsafe_b64encode(d) ==
    LET n      == Len(d)
        At(i)  == IF i <= n THEN d[i] ELSE 0
        G(g)   == At(3 * g + 1) * 65536 + At(3 * g + 2) * 256 + At(3 * g + 3)
    IN  Bytes([p \in 1..(4 * ((n + 2) \div 3)) |->
            LET g == (p - 1) \div 4
                k == (p - 1) % 4
            IN  IF 3 * g + k > n THEN 61
                ELSE B64Char((G(g) \div (CASE k = 0 -> 262144 [] k = 1 -> 4096
                                           [] k = 2 -> 64 [] OTHER -> 1)) % 64)])

\* base64.urlsafe_b64decode; an error for anything that is not canonical
\* base64url text
urlsafe_b64decode(t) ==
    LET n    == Len(t)
        pad  == IF n >= 2 /\ t[n] = 61 /\ t[n - 1] = 61 THEN 2
                ELSE IF n >= 1 /\ t[n] = 61 THEN 1 ELSE 0
        V(i) == IF i > n - pad THEN 0 ELSE B64Val(t[i])
        G(g) == V(4 * g + 1) * 262144 + V(4 * g + 2) * 4096 + V(4 * g + 3) * 64
                    + V(4 * g + 4)
    IN  IF n % 4 # 0 \/ \E i \in 1..(n - pad) : B64Val(t[i]) = 64
        THEN Err("InvalidToken")
        ELSE Ok(Bytes([p \in 1..(3 * (n \div 4) - pad) |->
                    LET g == (p - 1) \div 3
                        k == (p - 1) % 3
                    IN  (G(g) \div (CASE k = 0 -> 65536 [] k = 1 -> 256
                                      [] OTHER -> 1)) % 256]))

\* AES-128 on one block, a stand-in: a key-dependent byte rotation and shift
AesBlockEncrypt(key, b) ==
    Bytes([j \in 1..16 |-> (b[(j % 16) + 1] + key[j] + j) % 256])
AesBlockDecrypt(key, c) ==
    Bytes([j \in 1..16 |->
        LET i == ((j + 14) % 16) + 1 IN (c[i] - key[i] - i + 512) % 256])

XorBytes(a, b) == Bytes([j \in 1..Len(a) |-> Xor(a[j], b[j])])

\* PKCS7 padding to 16-byte blocks
Pkcs7Pad(d) == d \o Repeat(16 - (Len(d) % 16), 16 - (Len(d) % 16))

RECURSIVE CbcEncrypt(_, _, _)
\* AES-CBC over whole blocks: c[i] = E(p[i] xor c[i-1]), c[0] = iv
CbcEncrypt(key, prev, data) ==
    IF Len(data) = 0 THEN <<>>
    ELSE LET c == AesBlockEncrypt(key, XorBytes(SubSeq(data, 1, 16), prev))
         IN  IF Done(c) THEN c \o CbcEncrypt(key, c, From(data, 16)) ELSE c

\* p[i] = D(c[i]) xor c[i-1]
CbcDecrypt(key, iv, data) ==
    LET prev   == iv \o data
        blocks == Bytes([b \in 1..(Len(data) \div 16) |->
                      XorBytes(AesBlockDecrypt(key, SubSeq(data, 16 * b - 15, 16 * b)),
                               SubSeq(prev, 16 * b - 15, 16 * b))])
    IN  Bytes([p \in 1..Len(data) |-> blocks[((p - 1) \div 16) + 1][((p - 1) % 16) + 1]])

\* PKCS7 unpadding: the padded data is whole blocks ending in v bytes of value v
Pkcs7Unpad(d) ==
    LET n == Len(d)
        v == d[n]
    IN  IF n = 0 \/ n % 16 # 0 THEN Err("InvalidToken")
        ELSE IF v < 1 \/ v > 16 \/ \E i \in (n - v + 1)..n : d[i] # v
        THEN Err("InvalidToken")
        ELSE Ok(SubSeq(d, 1, n - v))

\* Optional[int]: None is the empty sequence, a value v is <<v>>
None == <<>>

\* Fernet(key).encrypt(data) at current_time with the 16 random bytes iv;
\* key is the base64url text of 32 bytes: signing key, then encryption key
Fernet_encrypt(key, data, current_time, iv) ==
    LET sign(k, parts) == urlsafe_b64encode(parts \o HmacSha256(Slice(k, 0, 16), parts))
        seal(k) == sign(k, <<128>> \o PackQBig(current_time) \o iv
                               \o CbcEncrypt(From(k, 16), iv, Pkcs7Pad(data)))
    IN  seal(urlsafe_b64decode(key).val)

\* Fernet(key).decrypt(token, ttl) at current_time
Fernet_decrypt(key, token, ttl, current_time) ==
    LET _MAX_CLOCK_SKEW == 60
        open(k, d) ==
            LET n         == Len(d.val)
                timestamp == UnpackQ(Reverse(SubSeq(d.val, 2, 9)))
            IN  IF ~d.ok THEN d
                ELSE IF n < 9 \/ d.val[1] # 128 THEN Err("InvalidToken")
                ELSE IF ttl # None /\ (timestamp + ttl[1] < current_time
                                       \/ current_time + _MAX_CLOCK_SKEW < timestamp)
                THEN Err("InvalidToken")
                ELSE IF n < 41 \/ HmacSha256(Slice(k, 0, 16), SubSeq(d.val, 1, n - 32))
                                    # SubSeq(d.val, n - 31, n)
                THEN Err("InvalidToken")
                ELSE IF n < 57 \/ (n - 57) % 16 # 0 THEN Err("InvalidToken")
                ELSE Pkcs7Unpad(CbcDecrypt(From(k, 16), SubSeq(d.val, 10, 25),
                                           SubSeq(d.val, 26, n - 32)))
    IN  open(urlsafe_b64decode(key).val, urlsafe_b64decode(token))

\* salt = sha256(nonce + layer_id + b"SALT")[:16]; PBKDF2-HMAC-SHA256 over the
\* master key (one HMAC round stands for the 100000), base64url encoded
L2_derive_fernet_key(master_key, nonce) ==
    LET LAYER2_FERNET == <<76,65,89,69,82,50,95,70,69,82,78,69,84>>
        SALT == <<83,65,76,84>>
        derived_key(salt) == HmacSha256(master_key, salt \o <<0, 0, 0, 1>>)
    IN  urlsafe_b64encode(derived_key(Slice(Sha256(nonce \o LAYER2_FERNET \o SALT), 0, 16)))

\* [nonce_len:1][nonce][token_len:4][token]
L2_create_enhanced_token(fernet_token, nonce) ==
    IF Len(nonce) > 255 THEN Err("Nonce too long (max 255 bytes)")
    ELSE Ok(<<Len(nonce)>> \o nonce \o PackI(Len(fernet_token)) \o fernet_token)

\* (nonce, fernet_token) or an error
L2_parse_enhanced_token(enhanced_token) ==
    LET nonce_len       == enhanced_token[1]
        token_len_start == 1 + nonce_len
        token_len       == UnpackI(Slice(enhanced_token, token_len_start, token_len_start + 4))
        fernet_start    == token_len_start + 4
    IN  IF Len(enhanced_token) < 6 THEN Err("Invalid enhanced token: too short")
        ELSE IF Len(enhanced_token) < 1 + nonce_len + 4
        THEN Err("Invalid enhanced token: corrupted nonce section")
        ELSE IF Len(enhanced_token) < fernet_start + token_len
        THEN Err("Invalid enhanced token: corrupted token section")
        ELSE Ok([nonce        |-> Slice(enhanced_token, 1, 1 + nonce_len),
                 fernet_token |-> Slice(enhanced_token, fernet_start,
                                        fernet_start + token_len)])

\* AESFernetLayer.encrypt; current_time and iv are what Fernet draws itself
L2_encrypt(plaintext, master_key, nonce, current_time, iv) ==
    LET e == LayerArgError(plaintext, master_key, nonce, "Plaintext cannot be empty")
    IN  IF e # "" THEN Err(e)
        ELSE L2_create_enhanced_token(
                 Fernet_encrypt(L2_derive_fernet_key(master_key, nonce), plaintext,
                                current_time, iv), nonce)

\* AESFernetLayer.decrypt(ciphertext, master_key, ttl)
L2_decrypt(ciphertext, master_key, ttl, current_time) ==
    LET p == L2_parse_enhanced_token(ciphertext)
    IN  IF Len(master_key) < 32 THEN Err("Master key must be at least 32 bytes")
        ELSE IF Len(ciphertext) = 0 THEN Err("Ciphertext cannot be empty")
        ELSE IF ~p.ok THEN p
        ELSE Fernet_decrypt(L2_derive_fernet_key(master_key, p.val.nonce),
                            p.val.fernet_token, ttl, current_time)

-----------------------------------------------------------------------------
(* Layer 3: AESCTRLayer (layer3_aes_ctr.py)                                *)

LAYER3_AESCTR     == <<76,65,89,69,82,51,95,65,69,83,67,84,82>>

L3_derive_ctr_key(master_key, nonce) ==
    LET AES256_CTR_KEY == <<65,69,83,50,53,54,95,67,84,82,95,75,69,89>>
        context == LAYER3_AESCTR \o nonce \o AES256_CTR_KEY
    IN  Sha256(Sha256(master_key \o context) \o Slice(context, 0, 16))

\* ctr_nonce (12 bytes) + counter start (4 bytes, unpacked and packed again)
L3_generate_ctr_iv(master_key, nonce) ==
    LET CTR_IV_GENERATION == <<67,84,82,95,73,86,95,71,69,78,69,82,65,84,73,79,78>>
        iv_context == LAYER3_AESCTR \o nonce \o CTR_IV_GENERATION
    IN  Slice(Sha256(master_key \o iv_context), 0, 16)

\* The counter block b blocks after iv (the last two bytes count, big endian)
CtrBlock(iv, b) ==
    LET c == (iv[15] * 256 + iv[16] + b) % 65536
    IN  SubSeq(iv, 1, 14) \o <<c \div 256, c % 256>>

\* cipher.encryptor().update(data) and cipher.decryptor().update(data) in CTR
\* mode: data xor E(key, iv), E(key, iv + 1), ...
CtrCrypt(key, iv, data) ==
    LET ks == Bytes([b \in 1..((Len(data) + 15) \div 16) |->
                  AesBlockEncrypt(key, CtrBlock(iv, b - 1))])
    IN  Bytes([p \in 1..Len(data) |->
            Xor(data[p], ks[((p - 1) \div 16) + 1][((p - 1) % 16) + 1])])

\* [iv_len:1][iv:16][ct_len:4][ct]
L3_pack_ctr_data(iv, ciphertext) ==
    IF Len(iv) # 16 THEN Err("IV must be exactly 16 bytes for AES-CTR")
    ELSE Ok(<<Len(iv)>> \o iv \o PackI(Len(ciphertext)) \o ciphertext)

\* (iv, ciphertext) or an error
L3_unpack_ctr_data(packed_data) ==
    LET ct_len == UnpackI(Slice(packed_data, 17, 21))
    IN  IF Len(packed_data) < 21 THEN Err("Invalid packed data: too short")
        ELSE IF packed_data[1] # 16 THEN Err("Invalid IV length")
        ELSE IF Len(packed_data) < 21 + ct_len
        THEN Err("Invalid packed data: truncated ciphertext")
        ELSE Ok([iv         |-> Slice(packed_data, 1, 17),
                 ciphertext |-> Slice(packed_data, 21, 21 + ct_len)])

\* AESCTRLayer.encrypt
L3_encrypt(plaintext, master_key, nonce) ==
    LET e == LayerArgError(plaintext, master_key, nonce, "Plaintext cannot be empty")
        pack(ctr_key, iv) == L3_pack_ctr_data(iv, CtrCrypt(ctr_key, iv, plaintext))
    IN  IF e # "" THEN Err(e)
        ELSE pack(L3_derive_ctr_key(master_key, nonce), L3_generate_ctr_iv(master_key, nonce))

\* AESCTRLayer.decrypt: the IV comes from the framing, the key from the arguments
L3_decrypt(ciphertext, master_key, nonce) ==
    LET e == LayerArgError(ciphertext, master_key, nonce, "Ciphertext cannot be empty")
        u == L3_unpack_ctr_data(ciphertext)
    IN  IF e # "" THEN Err(e)
        ELSE IF ~u.ok THEN u
        ELSE Ok(CtrCrypt(L3_derive_ctr_key(master_key, nonce), u.val.iv,
                         u.val.ciphertext))

RECURSIVE Join(_)
\* b''.join(chunks)
Join(chunks) == IF chunks = <<>> THEN <<>> ELSE Head(chunks) \o Join(Tail(chunks))

\* encryptor.update(chunk) after offset bytes went through the same encryptor:
\* the key stream goes on where the chunk before ended
CtrUpdate(key, iv, offset, chunk) ==
    From(CtrCrypt(key, iv, Repeat(0, offset) \o chunk), offset)

RECURSIVE L3_stream_chunks(_, _, _, _, _)
\* The loop of encrypt_stream: every non-empty chunk is encrypted and yielded
L3_stream_chunks(key, iv, data_stream, k, offset) ==
    IF k > Len(data_stream) THEN <<>>
    ELSE IF data_stream[k] = <<>>
    THEN L3_stream_chunks(key, iv, data_stream, k + 1, offset)
    ELSE <<CtrUpdate(key, iv, offset, data_stream[k])>>
             \o L3_stream_chunks(key, iv, data_stream, k + 1,
                                 offset + Len(data_stream[k]))

\* AESCTRLayer.encrypt_stream: what the generator yields, in order.  The
\* first item is _pack_ctr_data(iv, b'')[:21]; encryptor.finalize() yields
\* nothing in CTR mode.
L3_encrypt_stream(data_stream, master_key, nonce) ==
    LET yields(ctr_key, iv, header) ==
            IF ~header.ok THEN header
            ELSE Ok(<<Slice(header.val, 0, 21)>>
                        \o L3_stream_chunks(ctr_key, iv, data_stream, 1, 0))
        start(ctr_key, iv) == yields(ctr_key, iv, L3_pack_ctr_data(iv, <<>>))
    IN  IF Len(master_key) < 32 THEN Err("Master key must be at least 32 bytes")
        ELSE IF Len(nonce) < 16 THEN Err("Nonce must be at least 16 bytes")
        ELSE start(L3_derive_ctr_key(master_key, nonce),
                   L3_generate_ctr_iv(master_key, nonce))

-----------------------------------------------------------------------------
(* Layer 4: ChaosXORLayer (layer4_chaos_xor.py).  The float state x in     *)
(* (0, 1) is the fixed-point number x / CHAOS_ONE; r = 3.9999999999999996  *)
(* is 4 at this precision.                                                 *)

CHAOS_ONE           == 32768
FLOAT_TO_BYTE_SCALE == 255

\* (seed_int & (2^53 - 1)) / 2^53, kept to 15 bits: bits 38..52 of the
\* little-endian 64-bit seed_int; 0 becomes the smallest positive value
L4_derive_chaos_seed(master_key, nonce) ==
    LET LAYER4_CHAOS == <<76,65,89,69,82,52,95,67,72,65,79,83>>
        LOGISTIC_MAP_SEED == <<76,79,71,73,83,84,73,67,95,77,65,80,95,83,69,69,68>>
        normalized(seed_hash) ==
            Max(1, (seed_hash[5] \div 64) + 4 * seed_hash[6] + 1024 * (seed_hash[7] % 32))
    IN  normalized(HmacSha256(master_key, LAYER4_CHAOS \o nonce \o LOGISTIC_MAP_SEED))

\* x(n+1) = r * x(n) * (1 - x(n)), kept strictly inside (0, 1)
L4_logistic_iterate(x) ==
    LET next_x == (4 * x * (CHAOS_ONE - x)) \div CHAOS_ONE
    IN  IF next_x <= 0 THEN 1
        ELSE IF next_x >= CHAOS_ONE THEN CHAOS_ONE - 1
        ELSE next_x

\* max(0, min(255, int(chaos_value * 255.0 + 0.5)))
L4_chaos_to_byte(chaos_value) ==
    Max(0, Min(255, (2 * chaos_value * FLOAT_TO_BYTE_SCALE + CHAOS_ONE)
                        \div (2 * CHAOS_ONE)))

RECURSIVE L4_chaos_run(_, _)
\* length iterations from state x: the bytes produced and the state reached.
\* (The re-seeding every MIN_PERIOD_LENGTH = 1000000 bytes is beyond every
\* stream generated here.)
L4_chaos_run(x, length) ==
    IF length <= 0 THEN [bytes |-> <<>>, state |-> x]
    ELSE IF length = 1
    THEN [bytes |-> <<L4_chaos_to_byte(L4_logistic_iterate(x))>>,
          state |-> L4_logistic_iterate(x)]
    ELSE LET first == L4_chaos_run(x, length \div 2)
         IN  IF Done(first)
             THEN LET rest == L4_chaos_run(first.state, length - (length \div 2))
                  IN  [bytes |-> first.bytes \o rest.bytes, state |-> rest.state]
             ELSE first

L4_generate_chaos_stream(seed, length) == L4_chaos_run(seed, length).bytes

L4_xor_with_chaos(data, chaos_stream) ==
    IF Len(data) # Len(chaos_stream)
    THEN Err("Data and chaos stream must be same length")
    ELSE Ok(XorBytes(data, chaos_stream))

\* [seed_len:1][seed_info][data_len:4][xor_result]
L4_pack_chaos_data(seed_info, xor_result) ==
    IF Len(seed_info) > 255 THEN Err("Seed info too large (max 255 bytes)")
    ELSE Ok(<<Len(seed_info)>> \o seed_info \o PackI(Len(xor_result)) \o xor_result)

\* (seed_info, xor_result) or an error
L4_unpack_chaos_data(packed_data) ==
    LET seed_len       == packed_data[1]
        data_len_start == 1 + seed_len
        data_len       == UnpackI(Slice(packed_data, data_len_start, data_len_start + 4))
        xor_start      == data_len_start + 4
    IN  IF Len(packed_data) < 6 THEN Err("Invalid packed data: too short")
        ELSE IF Len(packed_data) < 1 + seed_len + 4
        THEN Err("Invalid packed data: corrupted seed section")
        ELSE IF Len(packed_data) < xor_start + data_len
        THEN Err("Invalid packed data: corrupted XOR section")
        ELSE Ok([seed_info  |-> Slice(packed_data, 1, 1 + seed_len),
                 xor_result |-> Slice(packed_data, xor_start, xor_start + data_len)])

\* ChaosXORLayer.encrypt
L4_encrypt(plaintext, master_key, nonce) ==
    LET e == LayerArgError(plaintext, master_key, nonce, "Plaintext cannot be empty")
    IN  IF e # "" THEN Err(e)
        ELSE L4_pack_chaos_data(
                 Slice(nonce, 0, 16),
                 L4_xor_with_chaos(
                     plaintext,
                     L4_generate_chaos_stream(L4_derive_chaos_seed(master_key, nonce),
                                              Len(plaintext))).val)

\* ChaosXORLayer.decrypt(ciphertext, master_key): the nonce is the seed_info
L4_decrypt(ciphertext, master_key) ==
    LET u == L4_unpack_chaos_data(ciphertext)
    IN  IF Len(master_key) < 32 THEN Err("Master key must be at least 32 bytes")
        ELSE IF Len(ciphertext) = 0 THEN Err("Ciphertext cannot be empty")
        ELSE IF ~u.ok THEN u
        ELSE L4_xor_with_chaos(
                 u.val.xor_result,
                 L4_generate_chaos_stream(L4_derive_chaos_seed(master_key, u.val.seed_info),
                                          Len(u.val.xor_result)))

-----------------------------------------------------------------------------
(* Layer 5: RandomSwapper (layer5_random_swapper.py)                       *)

BLOCK_SIZE == 16
MIN_ROUNDS == 3
MAX_ROUNDS == 16

\* RandomSwapper.__init__
L5_init == [last_permutation |-> <<>>]

\* (num_rounds, swap_material): the round count comes from the HMAC of the key
\* material; swap_material is the HMAC and 8 more HMAC blocks
L5_derive_swap_parameters(master_key, nonce) ==
    LET LAYER5_SWAPPER == <<76,65,89,69,82,53,95,83,87,65,80,80,69,82>>
        BLOCK_PERMUTATION == <<66,76,79,67,75,95,80,69,82,77,85,84,65,84,73,79,78>>
        swap_context == LAYER5_SWAPPER \o nonce \o BLOCK_PERMUTATION
        parameters(param_hash, ext) ==
            [num_rounds    |-> UnpackIMod(Slice(param_hash, 0, 4),
                                          MAX_ROUNDS - MIN_ROUNDS + 1) + MIN_ROUNDS,
             swap_material |-> param_hash \o ext[0] \o ext[1] \o ext[2] \o ext[3]
                                   \o ext[4] \o ext[5] \o ext[6] \o ext[7]]
    IN  parameters(HmacSha256(master_key, swap_context),
                   [i \in 0..7 |-> HmacSha256(master_key, swap_context \o PackI(i))])

\* The number of padding bytes _pad_to_blocks appends to data of this length
L5_padding_length(original_length) ==
    BLOCK_SIZE - (original_length % BLOCK_SIZE)

\* (padded_data, original_length)
L5_pad_to_blocks(data) ==
    LET padding_length == L5_padding_length(Len(data))
    IN  [padded_data     |-> data \o Repeat(padding_length, padding_length),
         original_length |-> Len(data)]

L5_unpad_blocks(padded_data, original_length) ==
    IF original_length = 0 THEN Ok(<<>>)
    ELSE IF original_length > Len(padded_data)
    THEN Err("Invalid original length: exceeds padded data size")
    ELSE Ok(Slice(padded_data, 0, original_length))

L5_split_into_blocks(data) ==
    IF Len(data) % BLOCK_SIZE # 0 THEN Err("Data length must be multiple of 16")
    ELSE Ok(Bytes([b \in 1..(Len(data) \div BLOCK_SIZE) |->
                    SubSeq(data, BLOCK_SIZE * (b - 1) + 1, BLOCK_SIZE * b)]))

L5_join_blocks(blocks) ==
    Bytes([p \in 1..(BLOCK_SIZE * Len(blocks)) |->
        blocks[((p - 1) \div BLOCK_SIZE) + 1][((p - 1) % BLOCK_SIZE) + 1]])

\* One step of the shuffle on (blocks, indices, material_offset)
L5_swap(st, swap_material, i) ==
    LET off == IF st.material_offset + 4 > Len(swap_material) THEN 0
               ELSE st.material_offset
        j   == UnpackIMod(Slice(swap_material, off, off + 4), i + 1)
    IN  [blocks  |-> [st.blocks EXCEPT ![i + 1] = st.blocks[j + 1],
                                        ![j + 1] = st.blocks[i + 1]],
         indices |-> [st.indices EXCEPT ![i + 1] = st.indices[j + 1],
                                         ![j + 1] = st.indices[i + 1]],
         material_offset |-> off + 4]

RECURSIVE L5_shuffle_steps(_, _, _, _)
\* for i in range(hi, lo - 1, -1): one step
L5_shuffle_steps(st, swap_material, hi, lo) ==
    IF hi < lo THEN st
    ELSE IF hi = lo THEN L5_swap(st, swap_material, hi)
    ELSE LET mid   == (hi + lo) \div 2
             first == L5_shuffle_steps(st, swap_material, hi, mid + 1)
         IN  IF Done(first) THEN L5_shuffle_steps(first, swap_material, mid, lo)
             ELSE first

\* The blocks after the round and the indices list it returns
L5_fisher_yates_shuffle(blocks, swap_material, round_num) ==
    LET num_blocks == Len(blocks)
    IN  L5_shuffle_steps(
            [blocks  |-> blocks,
             indices |-> Bytes([i \in 1..num_blocks |-> i - 1]),
             material_offset |-> (round_num * num_blocks * 4) % Len(swap_material)],
            swap_material, num_blocks - 1, 1)

\* A decrypt that leaves the blocks where they are (a variant the properties
\* must tell from the code's)
L5_keep_order(blocks, permutation_indices) == Ok(blocks)

\* blocks[i] = temp_blocks[inverse_indices[i]]; an index outside the list raises
L5_inverse_fisher_yates(blocks, permutation_indices) ==
    LET num_blocks == Len(blocks)
        inverse_indices ==
            [o \in 0..(num_blocks - 1) |->
                LET hits == {i \in 0..(num_blocks - 1) : permutation_indices[i + 1] = o}
                IN  IF hits = {} THEN 0 ELSE CHOOSE i \in hits : \A h \in hits : h <= i]
    IN  IF num_blocks <= 1 THEN Ok(blocks)
        ELSE IF \E i \in 1..num_blocks : permutation_indices[i] >= num_blocks
        THEN Err("IndexError")
        ELSE Ok(Bytes([i \in 1..num_blocks |-> blocks[inverse_indices[i - 1] + 1]]))

\* [orig_len:4][perm_len:2][permutation_data][swapped_blocks]
L5_pack_swapped_data(swapped_blocks, original_length, permutation_data) ==
    IF Len(permutation_data) > 65535 THEN Err("Permutation data too large (max 64KB)")
    ELSE Ok(PackI(original_length) \o PackH(Len(permutation_data))
                \o permutation_data \o swapped_blocks)

\* (swapped_blocks, original_length, permutation_data) or an error
L5_unpack_swapped_data(packed_data) ==
    LET perm_len == UnpackH(Slice(packed_data, 4, 6))
    IN  IF Len(packed_data) < 6 THEN Err("Invalid packed data: too short")
        ELSE IF Len(packed_data) < 6 + perm_len
        THEN Err("Invalid packed data: truncated permutation data")
        ELSE Ok([swapped_blocks   |-> From(packed_data, 6 + perm_len),
                 original_length  |-> UnpackI(Slice(packed_data, 0, 4)),
                 permutation_data |-> Slice(packed_data, 6, 6 + perm_len)])

RECURSIVE L5_rounds(_, _, _, _, _)
\* for round_num in range(round_num, num_rounds): shuffle, collect the indices
L5_rounds(blocks, all_permutations, swap_material, round_num, num_rounds) ==
    IF round_num >= num_rounds
    THEN [blocks |-> blocks, all_permutations |-> all_permutations]
    ELSE LET r == L5_fisher_yates_shuffle(blocks, swap_material, round_num)
         IN  IF Done(r)
             THEN L5_rounds(r.blocks, Append(all_permutations, r.indices),
                            swap_material, round_num + 1, num_rounds)
             ELSE r

\* struct.pack('<H', idx) for every index of a permutation
L5_pack_permutation(perm) ==
    Bytes([p \in 1..(2 * Len(perm)) |->
        IF p % 2 = 1 THEN perm[(p + 1) \div 2] % 256 ELSE perm[p \div 2] \div 256])

RECURSIVE L5_pack_permutations(_)
L5_pack_permutations(all_permutations) ==
    IF all_permutations = <<>> THEN <<>>
    ELSE L5_pack_permutation(Head(all_permutations))
             \o L5_pack_permutations(Tail(all_permutations))

\* RandomSwapper.encrypt: the result and the layer object afterwards
L5_encrypt(self, plaintext, master_key, nonce) ==
    LET e      == LayerArgError(plaintext, master_key, nonce, "Plaintext cannot be empty")
        padded == L5_pad_to_blocks(plaintext)
        pack(num_rounds, r) ==
            [res  |-> L5_pack_swapped_data(
                          L5_join_blocks(r.blocks), padded.original_length,
                          PackH(num_rounds) \o L5_pack_permutations(r.all_permutations)),
             self |-> [last_permutation |-> r.all_permutations]]
        swap(params) ==
            pack(params.num_rounds,
                 L5_rounds(L5_split_into_blocks(padded.padded_data).val, <<>>,
                           params.swap_material, 0, params.num_rounds))
    IN  IF e # "" THEN [res |-> Err(e), self |-> self]
        ELSE swap(L5_derive_swap_parameters(master_key, nonce))

RECURSIVE L5_unshuffle(_, _, _, _)
\* for round_num in range(round_num, -1, -1): undo the round's permutation,
\* read at its place in permutation_info
L5_unshuffle(blocks, permutation_info, num_blocks, round_num) ==
    IF round_num < 0 THEN Ok(blocks)
    ELSE LET start == 2 + 2 * num_blocks * round_num
             perm  == Bytes([b \in 1..num_blocks |->
                          UnpackH(Slice(permutation_info, start + 2 * (b - 1),
                                        start + 2 * b))])
             r     == L5_inverse_fisher_yates(blocks, perm)
         IN  IF ~r.ok THEN r
             ELSE L5_unshuffle(r.val, permutation_info, num_blocks, round_num - 1)

\* RandomSwapper.decrypt
L5_decrypt(self, ciphertext, master_key, nonce) ==
    LET e          == LayerArgError(ciphertext, master_key, nonce,
                                    "Ciphertext cannot be empty")
        u          == L5_unpack_swapped_data(ciphertext)
        num_rounds == UnpackH(Slice(u.val.permutation_data, 0, 2))
        blocks     == L5_split_into_blocks(u.val.swapped_blocks)
        num_blocks == Len(blocks.val)
        unpad(restored) ==
            IF ~restored.ok THEN restored
            ELSE L5_unpad_blocks(L5_join_blocks(restored.val), u.val.original_length)
    IN  IF e # "" THEN Err(e)
        ELSE IF ~u.ok THEN u
        ELSE IF Len(u.val.permutation_data) < 2
        THEN Err("Invalid permutation info: too short")
        ELSE IF num_rounds < MIN_ROUNDS \/ num_rounds > MAX_ROUNDS
        THEN Err("Invalid rounds count")
        ELSE IF ~blocks.ok THEN blocks
        ELSE IF 2 + 2 * num_blocks * num_rounds > Len(u.val.permutation_data)
        THEN Err("Invalid permutation info: truncated data")
        ELSE unpad(L5_unshuffle(blocks.val, u.val.permutation_data, num_blocks,
                                num_rounds - 1))

-----------------------------------------------------------------------------
(* Layer 6: NoiseEmbedder (layer6_noise_embedding.py).  The float          *)
(* noise_ratio is kept in units of 1/RATIO_ONE.                            *)

RATIO_ONE          == 10000
MIN_NOISE_RATIO    == 1000
MAX_NOISE_RATIO    == 5000
NOISE_BLOCK_SIZE   == 8
PATTERN_BLOCK_SIZE == 64

\* NoiseEmbedder.__init__
L6_init == [last_pattern |-> <<>>]

\* sorted(s, key = Key): stable, by the rank of every element
SortBy(s, Key(_)) ==
    LET n    == Len(s)
        rank == Bytes([i \in 1..n |->
                    Cardinality({j \in 1..n : Key(s[j]) < Key(s[i])
                                              \/ (Key(s[j]) = Key(s[i]) /\ j < i)})])
    IN  Bytes([k \in 1..n |-> s[CHOOSE i \in 1..n : rank[i] = k - 1]])

\* (noise_ratio, pattern_seed): the ratio comes from the HMAC of the key
\* material, (ratio_raw / 0xFFFFFFFF) * (MAX - MIN) + MIN, on the upper 16 bits
\* of ratio_raw
L6_derive_noise_parameters(master_key, nonce) ==
    LET LAYER6_NOISE == <<76,65,89,69,82,54,95,78,79,73,83,69>>
        NOISE_PATTERN_GEN == <<78,79,73,83,69,95,80,65,84,84,69,82,78,95,71,69,78>>
        PATTERN_SEED == <<80,65,84,84,69,82,78,95,83,69,69,68>>
        noise_context == LAYER6_NOISE \o nonce \o NOISE_PATTERN_GEN
        parameters(param_hash) ==
            LET ratio_raw == param_hash[3] + 256 * param_hash[4]
            IN  [noise_ratio  |-> (ratio_raw * (MAX_NOISE_RATIO - MIN_NOISE_RATIO))
                                      \div 65535 + MIN_NOISE_RATIO,
                 pattern_seed |-> HmacSha256(master_key, noise_context \o PATTERN_SEED
                                                             \o Slice(param_hash, 4, 8))]
    IN  parameters(HmacSha256(master_key, noise_context))

RECURSIVE L6_hash_chain(_, _, _, _)
\* for i in range(i, blocks): h = sha256(current_seed + pack('<I', i));
\* collect h; current_seed = h
L6_hash_chain(digests, current_seed, i, blocks) ==
    IF i >= blocks THEN digests
    ELSE LET h == Sha256(current_seed \o PackI(i))
         IN  IF Done(h) THEN L6_hash_chain(Append(digests, h), h, i + 1, blocks)
             ELSE digests

\* The positions the generator yields, in order: 8 per hash block, sorted
L6_create_position_generator(pattern_seed, data_length) ==
    LET positions(blocks) ==
            Bytes([p \in 1..(8 * Len(blocks)) |->
                UnpackIMod(SubSeq(blocks[((p - 1) \div 8) + 1],
                                  4 * ((p - 1) % 8) + 1, 4 * ((p - 1) % 8) + 4),
                           data_length)])
        Same(x) == x
    IN  SortBy(positions(L6_hash_chain(<<>>, pattern_seed, 0,
                                       data_length \div PATTERN_BLOCK_SIZE + 1)),
               Same)

\* The size of the chunk inserted at insert_pos
L6_chunk_size(insert_pos, remaining_noise, pattern_seed) ==
    LET max_chunk  == Min(remaining_noise, NOISE_BLOCK_SIZE * 2)
        min_chunk  == Min(NOISE_BLOCK_SIZE, remaining_noise)
        start      == insert_pos % Len(pattern_seed)
        cut        == Slice(pattern_seed, start, start + 4)
        chunk_seed == cut \o Slice(pattern_seed, 0, 4 - Len(cut))
    IN  UnpackIMod(chunk_seed, max_chunk - min_chunk + 1) + min_chunk

RECURSIVE L6_insertions(_, _, _, _, _)
\* while remaining_noise > 0 and current_pos < data_length: take the next
\* position, append (insert_pos, chunk_size).  next() on an exhausted
\* generator raises StopIteration.
L6_insertions(st, positions, k, data_length, pattern_seed) ==
    IF ~(st.remaining_noise > 0 /\ st.current_pos < data_length) THEN Ok(st)
    ELSE IF k > Len(positions) THEN Err("StopIteration")
    ELSE IF positions[k] >= data_length THEN Ok(st)
    ELSE LET chunk_size == L6_chunk_size(positions[k], st.remaining_noise, pattern_seed)
             next == [noise_insertions |-> Append(st.noise_insertions,
                                                  <<positions[k], chunk_size>>),
                      remaining_noise  |-> st.remaining_noise - chunk_size,
                      current_pos      |-> positions[k] + 1]
         IN  IF Done(next)
             THEN L6_insertions(next, positions, k + 1, data_length, pattern_seed)
             ELSE Ok(next)

\* The total without the minimum of one block (a variant the properties must
\* tell from the code's)
L6_total_noise_no_minimum(data_length, noise_ratio) ==
    (data_length * noise_ratio) \div RATIO_ONE

\* The noise _generate_noise_pattern distributes over data of this length
L6_total_noise(data_length, noise_ratio) ==
    Max((data_length * noise_ratio) \div RATIO_ONE, NOISE_BLOCK_SIZE)

\* The list of (insert_position, noise_length); the noise left over when the
\* loop ends goes to the last insertion
L6_generate_noise_pattern(data_length, noise_ratio, pattern_seed) ==
    LET leftover(r) ==
            LET n == Len(r.val.noise_insertions)
            IN  IF ~r.ok THEN r
                ELSE IF r.val.remaining_noise > 0 /\ n > 0
                THEN Ok([r.val.noise_insertions EXCEPT
                            ![n] = <<@[1], @[2] + r.val.remaining_noise>>])
                ELSE Ok(r.val.noise_insertions)
    IN  IF data_length = 0 THEN Ok(<<>>)
        ELSE leftover(L6_insertions(
                          [noise_insertions |-> <<>>,
                           remaining_noise  |-> L6_total_noise(data_length, noise_ratio),
                           current_pos      |-> 0],
                          L6_create_position_generator(pattern_seed, data_length),
                          1, data_length, pattern_seed))

\* Chained SHA-256 blocks from pattern_seed + b"NOISE_DATA_GEN", truncated
L6_generate_noise_data(total_length, pattern_seed) ==
    LET NOISE_DATA_GEN == <<78,79,73,83,69,95,68,65,84,65,95,71,69,78>>
        blocks == L6_hash_chain(<<>>, pattern_seed \o NOISE_DATA_GEN, 0,
                                (total_length + 31) \div 32)
    IN  IF total_length <= 0 THEN <<>>
        ELSE Bytes([p \in 1..total_length |->
                 blocks[((p - 1) \div 32) + 1][((p - 1) % 32) + 1]])

InsertPos(x) == x[1]

RECURSIVE L6_sum_noise(_, _)
\* sum(noise_len for _, noise_len in noise_pattern[k:])
L6_sum_noise(noise_pattern, k) ==
    IF k > Len(noise_pattern) THEN 0
    ELSE noise_pattern[k][2] + L6_sum_noise(noise_pattern, k + 1)

RECURSIVE L6_embed_steps(_, _, _, _, _)
\* for insert_pos, noise_len in sorted_pattern[k:]: copy the data up to
\* insert_pos, then the next noise_len noise bytes; an insertion before
\* data_pos is skipped
L6_embed_steps(st, data, sorted_pattern, all_noise, k) ==
    IF k > Len(sorted_pattern) THEN st
    ELSE LET insert_pos == sorted_pattern[k][1]
             noise_len  == sorted_pattern[k][2]
             next == IF insert_pos < st.data_pos THEN st
                     ELSE [result    |-> st.result
                                           \o Slice(data, st.data_pos, insert_pos)
                                           \o Slice(all_noise, st.noise_pos,
                                                    st.noise_pos + noise_len),
                           data_pos  |-> insert_pos,
                           noise_pos |-> st.noise_pos + noise_len]
         IN  IF Done(next) THEN L6_embed_steps(next, data, sorted_pattern, all_noise, k + 1)
             ELSE st

L6_embed_noise(data, noise_pattern, pattern_seed) ==
    LET remaining(st) == st.result \o From(data, st.data_pos)
    IN  IF noise_pattern = <<>> THEN data
        ELSE remaining(L6_embed_steps(
                           [result |-> <<>>, data_pos |-> 0, noise_pos |-> 0], data,
                           SortBy(noise_pattern, InsertPos),
                           L6_generate_noise_data(L6_sum_noise(noise_pattern, 1),
                                                  pattern_seed),
                           1))

\* [orig_len:4][num:2] then [pos:4][len:2] per insertion; struct.pack('<H', v)
\* raises for v > 65535
L6_create_noise_map(noise_pattern, original_length) ==
    LET sorted == SortBy(noise_pattern, InsertPos)
    IN  IF Len(noise_pattern) > 65535
           \/ \E k \in 1..Len(noise_pattern) : noise_pattern[k][2] > 65535
        THEN Err("struct.error")
        ELSE Ok(PackI(original_length) \o PackH(Len(noise_pattern))
                \o Bytes([p \in 1..(6 * Len(sorted)) |->
                       (PackI(sorted[((p - 1) \div 6) + 1][1])
                           \o PackH(sorted[((p - 1) \div 6) + 1][2]))[((p - 1) % 6) + 1]]))

\* (original_length, noise_pattern) or an error
L6_parse_noise_map(noise_map) ==
    LET num_insertions == UnpackH(Slice(noise_map, 4, 6))
    IN  IF Len(noise_map) < 6 THEN Err("Invalid noise map: too short")
        ELSE IF 6 + 6 * num_insertions > Len(noise_map)
        THEN Err("Invalid noise map: truncated insertion data")
        ELSE Ok([original_length |-> UnpackI(Slice(noise_map, 0, 4)),
                 noise_pattern   |->
                     Bytes([i \in 1..num_insertions |->
                         <<UnpackI(Slice(noise_map, 6 * i, 6 * i + 4)),
                           UnpackH(Slice(noise_map, 6 * i + 4, 6 * i + 6))>>])])

RECURSIVE L6_remove_steps(_, _, _, _)
\* for every noise region (insert_pos + cumulative_noise, + noise_len): copy
\* the data before it and continue after it
L6_remove_steps(st, noisy_data, sorted_pattern, k) ==
    IF k > Len(sorted_pattern) THEN st
    ELSE LET noise_start == sorted_pattern[k][1] + st.cumulative_noise
             noise_end   == noise_start + sorted_pattern[k][2]
             next == [result   |-> IF noise_start > st.data_pos
                                   THEN st.result \o Slice(noisy_data, st.data_pos,
                                                           noise_start)
                                   ELSE st.result,
                      data_pos |-> noise_end,
                      cumulative_noise |-> st.cumulative_noise + sorted_pattern[k][2]]
         IN  IF Done(next) THEN L6_remove_steps(next, noisy_data, sorted_pattern, k + 1)
             ELSE st

\* A removal that keeps one insertion per position (a variant the properties
\* must tell from the code's)
L6_remove_distinct_positions(noisy_data, noise_pattern) ==
    LET remaining(st) == st.result \o From(noisy_data, st.data_pos)
        sorted   == SortBy(noise_pattern, InsertPos)
        keep(x)  == \A k \in 1..Len(sorted) :
                        sorted[k] = x => \A j \in 1..(k - 1) : sorted[j][1] # x[1]
    IN  IF noise_pattern = <<>> THEN noisy_data
        ELSE remaining(L6_remove_steps(
                           [result |-> <<>>, data_pos |-> 0, cumulative_noise |-> 0],
                           noisy_data, SelectSeq(sorted, keep), 1))

L6_remove_noise(noisy_data, noise_pattern) ==
    LET remaining(st) == st.result \o From(noisy_data, st.data_pos)
    IN  IF noise_pattern = <<>> THEN noisy_data
        ELSE remaining(L6_remove_steps(
                           [result |-> <<>>, data_pos |-> 0, cumulative_noise |-> 0],
                           noisy_data, SortBy(noise_pattern, InsertPos), 1))

\* [map_len:2][noise_map][noisy_data]
L6_pack_noisy_data(noisy_data, noise_map) ==
    IF Len(noise_map) > 65535 THEN Err("Noise map too large (max 64KB)")
    ELSE Ok(PackH(Len(noise_map)) \o noise_map \o noisy_data)

\* (noisy_data, noise_map) or an error
L6_unpack_noisy_data(packed_data) ==
    LET map_len == UnpackH(Slice(packed_data, 0, 2))
    IN  IF Len(packed_data) < 2 THEN Err("Invalid packed data: too short")
        ELSE IF Len(packed_data) < 2 + map_len
        THEN Err("Invalid packed data: truncated noise map")
        ELSE Ok([noisy_data |-> From(packed_data, 2 + map_len),
                 noise_map  |-> Slice(packed_data, 2, 2 + map_len)])

\* NoiseEmbedder.encrypt: the result and the layer object afterwards
L6_encrypt(self, plaintext, master_key, nonce) ==
    LET e          == LayerArgError(plaintext, master_key, nonce,
                                    "Plaintext cannot be empty")
        pack(pattern, noisy_data, noise_map) ==
            [res  |-> IF ~noise_map.ok THEN noise_map
                      ELSE L6_pack_noisy_data(noisy_data, noise_map.val),
             self |-> [last_pattern |-> pattern.val]]
        embed(pattern_seed, pattern) ==
            IF ~pattern.ok THEN [res |-> pattern, self |-> self]
            ELSE pack(pattern, L6_embed_noise(plaintext, pattern.val, pattern_seed),
                      L6_create_noise_map(pattern.val, Len(plaintext)))
        generate(params) ==
            embed(params.pattern_seed,
                  L6_generate_noise_pattern(Len(plaintext), params.noise_ratio,
                                            params.pattern_seed))
    IN  IF e # "" THEN [res |-> Err(e), self |-> self]
        ELSE generate(L6_derive_noise_parameters(master_key, nonce))

\* NoiseEmbedder.decrypt
L6_decrypt(self, ciphertext, master_key, nonce) ==
    LET e        == LayerArgError(ciphertext, master_key, nonce,
                                  "Ciphertext cannot be empty")
        u        == L6_unpack_noisy_data(ciphertext)
        m        == L6_parse_noise_map(u.val.noise_map)
        check(restored) ==
            IF Len(restored) # m.val.original_length THEN Err("Length mismatch")
            ELSE Ok(restored)
    IN  IF e # "" THEN Err(e)
        ELSE IF ~u.ok THEN u
        ELSE IF ~m.ok THEN m
        ELSE check(L6_remove_noise(u.val.noisy_data, m.val.noise_pattern))

-----------------------------------------------------------------------------
(* SevenLayerEncryption (master_encryption.py).  A str is the sequence of  *)
(* its utf-8 bytes.  The object self is the record of its fields; layers   *)
(* 2, 3 and 4 hold nothing the code ever assigns after construction.       *)

VERSION         == <<49, 46, 48>>
MAGIC_HEADER    == <<55, 76, 65, 89, 69, 82>>
MASTER_KEY_SIZE == 64
NONCE_SIZE      == 32

MAXIMUM     == <<77, 65, 88, 73, 77, 85, 77>>
BALANCED    == <<66, 65, 76, 65, 78, 67, 69, 68>>
PERFORMANCE == <<80, 69, 82, 70, 79, 82, 77, 65, 78, 67, 69>>

ProfileNames == {MAXIMUM, BALANCED, PERFORMANCE}

\* The entries of SECURITY_PROFILES the layers could take; noise_ratio in
\* units of 1/RATIO_ONE
SECURITY_PROFILES ==
    [p \in ProfileNames |->
        CASE p = MAXIMUM ->
                 [fernet_ttl |-> None, swapper_rounds |-> 16, noise_ratio |-> 5000,
                  integrity_tag_size |-> 32]
          [] p = BALANCED ->
                 [fernet_ttl |-> <<3600>>, swapper_rounds |-> 8, noise_ratio |-> 3000,
                  integrity_tag_size |-> 32]
          [] OTHER ->
                 [fernet_ttl |-> <<1800>>, swapper_rounds |-> 4, noise_ratio |-> 1000,
                  integrity_tag_size |-> 16]]

\* _initialize_layers: every layer object is constructed anew; only layer 7
\* takes a setting of the profile
initialize_layers(self) ==
    [self EXCEPT !.layer1 = L1_init, !.layer5 = L5_init, !.layer6 = L6_init,
                 !.layer7 = L7_init(self.config.integrity_tag_size)]

\* SevenLayerEncryption.__init__(profile), profile one of the three names
SevenLayerEncryption(p) ==
    initialize_layers(
        [profile |-> p, config |-> SECURITY_PROFILES[p],
         layer1 |-> L1_init, layer5 |-> L5_init, layer6 |-> L6_init,
         layer7 |-> L7_init(FULL_TAG_SIZE),
         performance_stats |->
             [operations |-> 0, bytes_processed |-> 0,
              layer_timings |-> [encrypt |-> 0, decrypt |-> 0]]])

\* _derive_layer_keys: layer_keys[1..7], or an error
derive_layer_keys(master_key, nonce) ==
    IF Len(master_key) # MASTER_KEY_SIZE THEN Err("Master key must be exactly 64 bytes")
    ELSE IF Len(nonce) # NONCE_SIZE THEN Err("Nonce must be exactly 32 bytes")
    ELSE Ok([layer_num \in 1..7 |->
                LET layer_context == <<55,76,65,89,69,82,95,75,69,89,95,76>>
                                         \o <<48 + layer_num>> \o nonce
                                         \o Slice(master_key, 0, 16)
                    intermediate  == Sha256(master_key \o layer_context
                                                \o PackI(layer_num))
                IN  Sha256(intermediate \o Reverse(layer_context)
                               \o Slice(nonce, layer_num - 1, layer_num - 1 + 16))])

\* A header with a 4-byte timestamp (a variant the properties must tell from
\* the code's)
create_header_short_timestamp(nonce, p, current_time) ==
    Ok(MAGIC_HEADER \o Slice(VERSION, 0, 3) \o <<Len(p)>> \o p \o PackI(current_time)
           \o nonce)

\* [magic:6][version:3][profile_len:1][profile][timestamp:8][nonce:32]
create_system_header(nonce, p, current_time) ==
    IF Len(p) > 255 THEN Err("Profile name too long")
    ELSE Ok(MAGIC_HEADER \o Slice(VERSION, 0, 3) \o Repeat(0, 3 - Min(3, Len(VERSION)))
                \o <<Len(p)>> \o p \o PackQ(current_time) \o nonce)

\* bytes.decode('utf-8') succeeds
Utf8Valid(b) ==
    LET n          == Len(b)
        IsCont(c)  == c >= 128 /\ c <= 191
        LeadLen(c) == IF c >= 194 /\ c <= 223 THEN 2
                      ELSE IF c >= 224 /\ c <= 239 THEN 3
                      ELSE IF c >= 240 /\ c <= 244 THEN 4 ELSE 0
    IN  \A i \in 1..n :
            IF b[i] < 128 THEN TRUE
            ELSE IF IsCont(b[i])
            THEN \E k \in 1..3 : /\ i - k >= 1
                                 /\ LeadLen(b[i - k]) > k
                                 /\ \A j \in 1..(k - 1) : IsCont(b[i - j])
            ELSE /\ LeadLen(b[i]) > 0
                 /\ i + LeadLen(b[i]) - 1 <= n
                 /\ \A j \in 1..(LeadLen(b[i]) - 1) : IsCont(b[i + j])
                 /\ (b[i] = 224 => b[i + 1] >= 160)
                 /\ (b[i] = 237 => b[i + 1] <= 159)
                 /\ (b[i] = 240 => b[i + 1] >= 144)
                 /\ (b[i] = 244 => b[i + 1] <= 143)

\* bytes.rstrip(b'\x00')
Rstrip0(b) ==
    LET keep == {i \in 1..Len(b) : b[i] # 0}
    IN  IF keep = {} THEN <<>>
        ELSE SubSeq(b, 1, CHOOSE i \in keep : \A j \in keep : j <= i)

\* _parse_system_header without the comparison of the magic bytes (a variant
\* the properties must tell from the code's)
parse_header_any_magic(data) ==
    LET version     == Rstrip0(Slice(data, 6, 9))
        profile_len == data[10]
        p           == Slice(data, 10, 10 + profile_len)
        offset      == 10 + profile_len
    IN  IF Len(data) < Len(MAGIC_HEADER) THEN Err("Invalid data: too short for header")
        ELSE IF ~Utf8Valid(version) THEN Err("UnicodeDecodeError")
        ELSE IF 9 >= Len(data) THEN Err("Invalid header: truncated at profile length")
        ELSE IF offset > Len(data) THEN Err("Invalid header: truncated at profile data")
        ELSE IF ~Utf8Valid(p) THEN Err("UnicodeDecodeError")
        ELSE IF offset + 8 + NONCE_SIZE > Len(data)
        THEN Err("Invalid header: truncated at nonce")
        ELSE Ok([version       |-> version,
                 profile       |-> p,
                 timestamp     |-> UnpackQ(Slice(data, offset, offset + 8)),
                 nonce         |-> Slice(data, offset + 8, offset + 8 + NONCE_SIZE),
                 header_length |-> offset + 8 + NONCE_SIZE])

\* (version, profile, timestamp, nonce, header_length) or an error
parse_system_header(data) ==
    LET version     == Rstrip0(Slice(data, 6, 9))
        profile_len == data[10]
        p           == Slice(data, 10, 10 + profile_len)
        offset      == 10 + profile_len
    IN  IF Len(data) < Len(MAGIC_HEADER) THEN Err("Invalid data: too short for header")
        ELSE IF Slice(data, 0, 6) # MAGIC_HEADER
        THEN Err("Invalid data: magic header mismatch")
        ELSE IF ~Utf8Valid(version) THEN Err("UnicodeDecodeError")
        ELSE IF 9 >= Len(data) THEN Err("Invalid header: truncated at profile length")
        ELSE IF offset > Len(data) THEN Err("Invalid header: truncated at profile data")
        ELSE IF ~Utf8Valid(p) THEN Err("UnicodeDecodeError")
        ELSE IF offset + 8 > Len(data) THEN Err("Invalid header: truncated at timestamp")
        ELSE IF offset + 8 + NONCE_SIZE > Len(data)
        THEN Err("Invalid header: truncated at nonce")
        ELSE Ok([version       |-> version,
                 profile       |-> p,
                 timestamp     |-> UnpackQ(Slice(data, offset, offset + 8)),
                 nonce         |-> Slice(data, offset + 8, offset + 8 + NONCE_SIZE),
                 header_length |-> offset + 8 + NONCE_SIZE])

\* decrypt with layers 2 and 1 exchanged (a variant the properties must tell
\* from the code's)
DECRYPT_ORDER_SWAPPED == <<7, 6, 5, 4, 3, 1, 2>>

\* The statements of encrypt and of decrypt, as the layers they call in turn
ENCRYPT_ORDER == <<1, 2, 3, 4, 5, 6, 7>>
DECRYPT_ORDER == <<7, 6, 5, 4, 3, 2, 1>>

\* self.layerN.encrypt(current_data, layer_keys[N], nonce[:16]): the outcome and
\* the orchestrator afterwards.  rnd holds what the call draws from outside:
\* the clock, the IV Fernet takes from os.urandom, and log_error, the layer at
\* whose log entry the write to encryption_log.txt fails (0: at none)
layer_encrypt(self, layer_num, current_data, key, nonce, rnd) ==
    LET in_layer1(r) == [res |-> r.res, self |-> [self EXCEPT !.layer1 = r.self]]
        in_layer5(r) == [res |-> r.res, self |-> [self EXCEPT !.layer5 = r.self]]
        in_layer6(r) == [res |-> r.res, self |-> [self EXCEPT !.layer6 = r.self]]
    IN  CASE layer_num = 1 -> in_layer1(L1_encrypt(self.layer1, current_data, key, nonce))
          [] layer_num = 2 ->
                 [res |-> L2_encrypt(current_data, key, nonce, rnd.time, rnd.iv),
                  self |-> self]
          [] layer_num = 3 -> [res |-> L3_encrypt(current_data, key, nonce), self |-> self]
          [] layer_num = 4 -> [res |-> L4_encrypt(current_data, key, nonce), self |-> self]
          [] layer_num = 5 -> in_layer5(L5_encrypt(self.layer5, current_data, key, nonce))
          [] layer_num = 6 -> in_layer6(L6_encrypt(self.layer6, current_data, key, nonce))
          [] OTHER ->
                 [res |-> L7_encrypt(self.layer7, current_data, key, nonce, rnd.time),
                  self |-> self]

\* self.layerN.decrypt(...) with the arguments decrypt passes to each layer:
\* layers 7 and 4 take no nonce, layer 2 is called without a ttl
layer_decrypt(self, layer_num, current_data, key, nonce, current_time) ==
    LET in_layer1(r) == [res |-> r.res, self |-> [self EXCEPT !.layer1 = r.self]]
    IN
    CASE layer_num = 7 -> [res |-> L7_decrypt(self.layer7, current_data, key), self |-> self]
      [] layer_num = 6 ->
             [res |-> L6_decrypt(self.layer6, current_data, key, nonce), self |-> self]
      [] layer_num = 5 ->
             [res |-> L5_decrypt(self.layer5, current_data, key, nonce), self |-> self]
      [] layer_num = 4 -> [res |-> L4_decrypt(current_data, key), self |-> self]
      [] layer_num = 3 -> [res |-> L3_decrypt(current_data, key, nonce), self |-> self]
      [] layer_num = 2 ->
             [res |-> L2_decrypt(current_data, key, None, current_time), self |-> self]
      [] OTHER -> in_layer1(L1_decrypt(self.layer1, current_data, key, nonce))

\* encryption_logger.log_layer_process(operation_id, layer_num, ...): the entry
\* is formatted and appended to the log file with open(self.log_file, 'a');
\* an OSError of the open or the write is not caught
log_layer_process(operation_id, layer_num, rnd) ==
    IF rnd.log_error = layer_num THEN Err("OSError") ELSE Ok(<<>>)

RECURSIVE encrypt_layers(_, _, _, _, _, _, _, _)
\* The layer statements of encrypt from the k-th on; steps lists the layer
\* calls made so far.  A layer that raises ends the call, and so does the log
\* entry written after a layer when an operation_id was given.
encrypt_layers(self, k, current_data, layer_keys, nonce, operation_id, rnd, steps) ==
    IF k > Len(ENCRYPT_ORDER)
    THEN [res |-> Ok(current_data), self |-> self, trace |-> steps]
    ELSE LET layer_num == ENCRYPT_ORDER[k]
             next(r) ==
                 LET step == [layer |-> layer_num, key |-> layer_keys[layer_num],
                              input |-> current_data, output |-> r.res]
                     logged == IF operation_id = None THEN Ok(<<>>)
                               ELSE log_layer_process(operation_id[1], layer_num, rnd)
                 IN  IF ~r.res.ok
                     THEN [res |-> r.res, self |-> r.self, trace |-> Append(steps, step)]
                     ELSE IF ~logged.ok
                     THEN [res |-> logged, self |-> r.self, trace |-> Append(steps, step)]
                     ELSE encrypt_layers(r.self, k + 1, r.res.val, layer_keys, nonce,
                                         operation_id, rnd, Append(steps, step))
         IN  next(layer_encrypt(self, layer_num, current_data, layer_keys[layer_num],
                                Slice(nonce, 0, 16), rnd))

RECURSIVE decrypt_layers(_, _, _, _, _, _, _)
\* The layer statements of decrypt from the k-th on
decrypt_layers(self, k, current_data, layer_keys, nonce, current_time, steps) ==
    IF k > Len(DECRYPT_ORDER)
    THEN [res |-> Ok(current_data), self |-> self, trace |-> steps]
    ELSE LET layer_num == DECRYPT_ORDER[k]
             next(r) ==
                 LET step == [layer |-> layer_num, key |-> layer_keys[layer_num],
                              input |-> current_data, output |-> r.res]
                 IN  IF ~r.res.ok
                     THEN [res |-> r.res, self |-> r.self, trace |-> Append(steps, step)]
                     ELSE decrypt_layers(r.self, k + 1, r.res.val, layer_keys, nonce,
                                         current_time, Append(steps, step))
         IN  next(layer_decrypt(self, layer_num, current_data, layer_keys[layer_num],
                                Slice(nonce, 0, 16), current_time))

\* The operation_id the logger hands out when an encryption starts ("MSG_1")
OPERATION_ID == <<77, 83, 71, 95, 49>>

\* encrypt without its own checks (a variant the properties must tell from
\* the code's)
no_validation(plaintext, master_key, nonce) == ""

\* The checks encrypt makes before it touches a layer: "" or the ValueError
encrypt_validate(plaintext, master_key, nonce) ==
    IF plaintext = <<>> THEN "Plaintext cannot be empty"
    ELSE IF Len(master_key) # MASTER_KEY_SIZE THEN "Master key must be 64 bytes"
    ELSE IF Len(nonce) # NONCE_SIZE THEN "Nonce must be 32 bytes"
    ELSE ""

\* encrypt with a fresh nonce whatever nonce it is given (a variant the
\* properties must tell from the code's)
always_fresh_nonce(nonce_arg, rnd) == rnd.nonce

\* if nonce is None: nonce = secrets.token_bytes(self.NONCE_SIZE)
nonce_or_fresh(nonce_arg, rnd) == IF nonce_arg = None THEN rnd.nonce ELSE nonce_arg[1]

\* SevenLayerEncryption.encrypt(plaintext, master_key, nonce, operation_id).
\* master_key, nonce and operation_id are None or <<value>>; rnd.master_key and
\* rnd.nonce are what secrets.token_bytes returns when the first two are None.
encrypt(self, plaintext, master_key_arg, nonce_arg, operation_id, rnd) ==
    LET master_key == IF master_key_arg = None THEN rnd.master_key ELSE master_key_arg[1]
        nonce      == nonce_or_fresh(nonce_arg, rnd)
        invalid    == encrypt_validate(plaintext, master_key, nonce)
        header     == create_system_header(nonce, self.profile, rnd.time)
        layer_keys == derive_layer_keys(master_key, nonce)
        raise(e)   == [res |-> Err(e), self |-> self, trace |-> <<>>,
                       master_key |-> master_key, nonce |-> nonce]
        finish(r)  ==
            IF ~r.res.ok
            THEN [res |-> r.res, self |-> r.self, trace |-> r.trace,
                  master_key |-> master_key, nonce |-> nonce]
            ELSE [res   |-> Ok(header.val \o r.res.val),
                  self  |-> [r.self EXCEPT
                                !.performance_stats.operations = @ + 1,
                                !.performance_stats.bytes_processed = @ + Len(plaintext),
                                !.performance_stats.layer_timings.encrypt = @ + 1],
                  trace |-> r.trace, master_key |-> master_key, nonce |-> nonce]
    IN  IF invalid # "" THEN raise(invalid)
        ELSE IF ~header.ok THEN raise(header.err)
        ELSE IF ~layer_keys.ok THEN raise(layer_keys.err)
        ELSE finish(encrypt_layers(self, 1, plaintext, layer_keys.val, nonce, operation_id,
                                   rnd, <<>>))

\* decrypt without the profile switch (a variant the properties must tell
\* from the code's)
keep_configuration(self, p) == self

\* The profile switch of decrypt: self.profile is assigned before the lookup
\* in SECURITY_PROFILES, which raises KeyError on a name it does not hold
reconfigure(self, p) ==
    IF p = self.profile THEN self
    ELSE IF p \notin DOMAIN SECURITY_PROFILES THEN [self EXCEPT !.profile = p]
    ELSE initialize_layers([self EXCEPT !.profile = p, !.config = SECURITY_PROFILES[p]])

\* SevenLayerEncryption.decrypt(ciphertext, master_key)
decrypt(self, ciphertext, master_key, current_time) ==
    LET h          == parse_system_header(ciphertext)
        self1      == reconfigure(self, h.val.profile)
        layer_keys == derive_layer_keys(master_key, h.val.nonce)
        raise(e)   == [res |-> Err(e), self |-> self, trace |-> <<>>]
        finish(r)  ==
            IF ~r.res.ok THEN r
            ELSE [res   |-> r.res,
                  self  |-> [r.self EXCEPT !.performance_stats.layer_timings.decrypt = @ + 1],
                  trace |-> r.trace]
    IN  IF ciphertext = <<>> THEN raise("Ciphertext cannot be empty")
        ELSE IF Len(master_key) # MASTER_KEY_SIZE THEN raise("Master key must be 64 bytes")
        ELSE IF ~h.ok THEN raise(h.err)
        ELSE IF h.val.version # VERSION THEN raise("Version mismatch")
        ELSE IF h.val.profile # self.profile
                    /\ h.val.profile \notin DOMAIN SECURITY_PROFILES
        THEN [res |-> Err("KeyError"), self |-> self1, trace |-> <<>>]
        ELSE IF ~layer_keys.ok THEN [res |-> layer_keys, self |-> self1, trace |-> <<>>]
        ELSE finish(decrypt_layers(self1, 1, From(ciphertext, h.val.header_length),
                                   layer_keys.val, h.val.nonce, current_time, <<>>))

\* SevenLayerEncryption.change_profile(new_profile)
change_profile(self, new_profile) ==
    IF new_profile \notin DOMAIN SECURITY_PROFILES
    THEN [res |-> Err("Invalid profile"), self |-> self]
    ELSE [res  |-> Ok(<<>>),
          self |-> initialize_layers([self EXCEPT !.profile = new_profile,
                                                  !.config = SECURITY_PROFILES[new_profile]])]

-----------------------------------------------------------------------------
(* The integration wrappers (seven_layer_integration.py,                   *)
(* seven_layer_file_encryption.py).  Each call builds its own orchestrator *)
(* and catches every exception of its body.  A returned dict is the record *)
(* of the entries read later.                                              *)

ERROR == <<69, 82, 82, 79, 82>>

\* sorted([user1_id, user2_id]): a before b in the order of str
StrLessEq(a, b) ==
    LET d == {i \in 1..Min(Len(a), Len(b)) : a[i] # b[i]}
    IN  IF d = {} THEN Len(a) <= Len(b)
        ELSE a[CHOOSE i \in d : \A j \in d : i <= j] < b[CHOOSE i \in d : \A j \in d : i <= j]

\* hashlib.pbkdf2_hmac('sha512', password, salt, 100000, 64)
Pbkdf2Sha512(password, salt) ==
    HmacSha256(password, salt \o <<0, 0, 0, 1>>) \o HmacSha256(password, salt \o <<0, 0, 0, 2>>)

\* generate_user_pair_key: "CRYPT_TALK_7LAYER:<first>:<second>" under the
\* salt "CryptTalk7LayerSalt2024"
generate_user_pair_key(user1_id, user2_id) ==
    LET first  == IF StrLessEq(user1_id, user2_id) THEN user1_id ELSE user2_id
        second == IF StrLessEq(user1_id, user2_id) THEN user2_id ELSE user1_id
    IN  Pbkdf2Sha512(<<67, 82, 89, 80, 84, 95, 84, 65, 76, 75, 95, 55, 76, 65, 89, 69, 82, 58>>
                         \o first \o <<58>> \o second,
                     <<67, 114, 121, 112, 116, 84, 97, 108, 107, 55, 76, 97, 121, 101, 114,
                       83, 97, 108, 116, 50, 48, 50, 52>>)

\* generate_file_key_from_users: "CRYPT_TALK_7LAYER_FILES:<first>:<second>"
\* under the salt "CryptTalk7LayerFilesSalt2024"
generate_file_key_from_users(user1_id, user2_id) ==
    LET first  == IF StrLessEq(user1_id, user2_id) THEN user1_id ELSE user2_id
        second == IF StrLessEq(user1_id, user2_id) THEN user2_id ELSE user1_id
    IN  Pbkdf2Sha512(<<67, 82, 89, 80, 84, 95, 84, 65, 76, 75, 95, 55, 76, 65, 89, 69, 82, 95,
                       70, 73, 76, 69, 83, 58>> \o first \o <<58>> \o second,
                     <<67, 114, 121, 112, 116, 84, 97, 108, 107, 55, 76, 97, 121, 101, 114,
                       70, 105, 108, 101, 115, 83, 97, 108, 116, 50, 48, 50, 52>>)

\* encrypt_message(message, user1_id, user2_id) with SECURITY_PROFILE =
\* BALANCED: what the caller gets (raised: an exception leaves the wrapper),
\* and the outcome of the orchestrator call inside
wrapper_encrypt_message(message, user1_id, user2_id, rnd) ==
    LET caught(core) ==
            IF core.res.ok
            THEN [raised |-> FALSE, core |-> core.res,
                  returned |-> [encrypted_message  |-> urlsafe_b64encode(core.res.val),
                                security_profile   |-> BALANCED,
                                encryption_version |->
                                    <<55, 76, 65, 89, 69, 82, 95, 118, 49, 46, 48>>]]
            ELSE [raised |-> FALSE, core |-> core.res,
                  returned |-> [encrypted_message  |-> message,
                                security_profile   |-> ERROR,
                                encryption_version |-> ERROR]]
    IN  caught(encrypt(SevenLayerEncryption(BALANCED), message,
                       <<generate_user_pair_key(user1_id, user2_id)>>, None,
                       <<OPERATION_ID>>, rnd))

\* decrypt_message(encrypted_data, user1_id, user2_id) on a dict whose
\* encryption_version starts with "7LAYER"
wrapper_decrypt_message(encrypted_data, user1_id, user2_id, current_time) ==
    LET encrypted_bytes == urlsafe_b64decode(encrypted_data.encrypted_message)
        caught(core) ==
            IF core.ok /\ Utf8Valid(core.val)
            THEN [raised |-> FALSE, core |-> core, returned |-> core.val]
            ELSE [raised |-> FALSE, core |-> core,
                  returned |-> encrypted_data.encrypted_message]
    IN  caught(IF ~encrypted_bytes.ok THEN encrypted_bytes
               ELSE IF encrypted_data.security_profile \notin DOMAIN SECURITY_PROFILES
               THEN Err("Invalid profile")
               ELSE decrypt(SevenLayerEncryption(encrypted_data.security_profile),
                            encrypted_bytes.val,
                            generate_user_pair_key(user1_id, user2_id), current_time).res)

\* encrypt_file_data(file_data, user1_id, user2_id) with SECURITY_PROFILE = MAXIMUM
wrapper_encrypt_file_data(file_data, user1_id, user2_id, rnd) ==
    LET caught(core) ==
            IF core.res.ok
            THEN [raised |-> FALSE, core |-> core.res,
                  returned |-> [encrypted_data     |-> urlsafe_b64encode(core.res.val),
                                security_profile   |-> MAXIMUM,
                                encryption_version |->
                                    <<55, 76, 65, 89, 69, 82, 95, 70, 73, 76, 69,
                                      95, 118, 49, 46, 48>>]]
            ELSE [raised |-> FALSE, core |-> core.res,
                  returned |-> [encrypted_data     |-> urlsafe_b64encode(file_data),
                                security_profile   |-> ERROR,
                                encryption_version |-> ERROR]]
    IN  caught(encrypt(SevenLayerEncryption(MAXIMUM), file_data,
                       <<generate_file_key_from_users(user1_id, user2_id)>>, None,
                       <<OPERATION_ID>>, rnd))

-----------------------------------------------------------------------------
(* Lengths.  What encrypt makes of a plaintext of n bytes in layers 1 to 5, *)
(* as far as the length decides it: the framing of each layer fixes the    *)
(* length of its output, and layer 5 refuses permutation data above 65535  *)
(* bytes.  num_rounds is the round count layer 5 derives from the key.     *)

\* len(base64.urlsafe_b64encode(x)) for len(x) = n
B64Length(n) == 4 * ((n + 2) \div 3)

\* One byte out for every byte in
L1_output_length(n) == n

\* [nonce_len:1][nonce:16][token_len:4] and the Fernet token: base64 of
\* version, timestamp, IV, the PKCS7-padded CBC blocks and the HMAC
L2_output_length(n) == 1 + 16 + 4 + B64Length(1 + 8 + 16 + 16 * (n \div 16 + 1) + 32)

\* [iv_len:1][iv:16][ct_len:4][ciphertext]
L3_output_length(n) == 1 + 16 + 4 + n

\* [seed_len:1][seed_info:16][data_len:4][xor_result]
L4_output_length(n) == 1 + 16 + 4 + n

\* len(permutation_info) in RandomSwapper.encrypt on n bytes: the round count
\* in 2 bytes, then 2 bytes for every block of every round
L5_permutation_info_length(n, num_rounds) ==
    2 + 2 * num_rounds * ((n + L5_padding_length(n)) \div BLOCK_SIZE)

\* [orig_len:4][perm_len:2][num_rounds:2, then 2 bytes per block and round]
\* [blocks], or the ValueError of _pack_swapped_data
L5_output_length(n, num_rounds) ==
    LET padded   == n + L5_padding_length(n)
        perm_len == L5_permutation_info_length(n, num_rounds)
    IN  IF perm_len > 65535 THEN Err("Permutation data too large (max 64KB)")
        ELSE Ok(4 + 2 + perm_len + padded)

\* The lengths after layers 1, 2, 3, 4 and the outcome of layer 5
encrypt_lengths(n, num_rounds) ==
    LET l1 == L1_output_length(n)
        l2 == L2_output_length(l1)
        l3 == L3_output_length(l2)
        l4 == L4_output_length(l3)
    IN  [lengths |-> <<l1, l2, l3, l4>>, layer5 |-> L5_output_length(l4, num_rounds)]

-----------------------------------------------------------------------------
(* Inputs and bounds                                                       *)

Key1       == Bytes([i \in 1..64 |-> (7 * i + 3) % 256])
Key2       == Bytes([i \in 1..64 |-> (5 * i + 11) % 256])
ShortKey   == Bytes([i \in 1..63 |-> (7 * i + 3) % 256])
Nonce1     == Bytes([i \in 1..32 |-> (11 * i) % 256])
Nonce2     == Bytes([i \in 1..32 |-> (13 * i + 1) % 256])
ShortNonce == Bytes([i \in 1..31 |-> (11 * i) % 256])
IV1        == Bytes([i \in 1..16 |-> (3 * i + 7) % 256])

\* "Hello, Crypt-Talk"
Message1 == <<72, 101, 108, 108, 111, 44, 32, 67, 114, 121, 112, 116, 45, 84, 97, 108, 107>>
\* "%PDF-1.4 file data"
File1    == <<37, 80, 68, 70, 45, 49, 46, 52, 32, 102, 105, 108, 101, 32, 100, 97,
              116, 97>>
Alice == <<97, 108, 105, 99, 101>>
Bob   == <<98, 111, 98>>
Carol == <<99, 97, 114, 111, 108>>

Messages     == {<<>>, Message1}
KeyArgs      == {<<Key1>>, <<ShortKey>>, None}
NonceArgs    == {<<Nonce1>>, <<ShortNonce>>, None}
DecryptKeys  == {Key1, Key2, ShortKey}
ProfileArgs  == ProfileNames \cup {<<88>>}
UserPairs    == {<<Alice, Bob>>, <<Bob, Alice>>, <<Alice, Carol>>}
\* What secrets.token_bytes and os.urandom return
Draws        == [master_key : {Key2}, nonce : {Nonce2}, iv : {IV1}, time : {0},
                 log_error : {0}]
\* The same with a second IV
IV2          == Bytes([i \in 1..16 |-> (9 * i + 2) % 256])
TwoDraws     == [master_key : {Key2}, nonce : {Nonce2}, iv : {IV1, IV2}, time : {0},
                 log_error : {0}]
\* The same with a log file that cannot be written at the entry of layer 1, 4 or 7
LogDraws     == [master_key : {Key2}, nonce : {Nonce2}, iv : {IV1}, time : {0},
                 log_error : {0, 1, 4, 7}]
OperationIds == {None, <<OPERATION_ID>>}
\* The chunks a caller feeds to encrypt_stream
Streams      == {<<Message1>>, <<File1>>, <<Slice(Message1, 0, 5), From(Message1, 5)>>,
                 <<Slice(File1, 0, 16), From(File1, 16)>>,
                 <<Slice(Message1, 0, 1), <<>>, From(Message1, 1)>>,
                 <<Message1, File1>>, <<File1, Message1, File1>>}
\* Layer keys (32 bytes) and the 16 bytes of the nonce the layers are given
LayerKeys    == {Slice(Key1, 0, 32), Slice(Key2, 0, 32)}
LayerNonces  == {Slice(Nonce1, 0, 16), Slice(Nonce2, 0, 16)}
\* Layer keys under which layer 5 derives each of the round counts 3..16 and
\* layer 6 ratios from 0.10 to 0.48; each gives layer 1 a table of its own
RoundKey(k)  == Bytes([i \in 1..32 |-> (k * i + 3) % 256])
RoundKeys    == {RoundKey(k) : k \in (1..18) \cup {39}}
\* Layer inputs of 1, 5, 16, 17, 18 and 32 bytes
LayerData    == {<<65>>, Slice(Message1, 0, 5), Slice(Message1, 0, 16), Message1, File1,
                 Slice(Message1, 1, 17) \o Slice(File1, 2, 18)}

MaxCalls      == 2
MaxOperations == 1
StartTime     == 1000000000
TickStep      == 4000
MaxTicks      == 1
MaxThreads    == 2
\* Sender threads serving add_message, messages stored in one behaviour, the
\* last minute of the clock, and the sender's self_destruct_timer in minutes
Senders       == 1..2
MaxStored     == 2
MaxMinutes    == 2
TimerMinutes  == 1
\* Calls on the PFS integration, and messages encrypted, in one behaviour
MaxPfsCalls == 5
MaxMessages == 2
\* The exponents the key generator draws from
PrivateKeys == {3, 5, 7, 11}
TamperBits    == {0, 7}
\* Plaintext lengths, the 100 KB of the performance run among them
MessageLengths == {1, 16, 17, 1000, 4096, 24576, 32768, 65536, 102400, 174763}

-----------------------------------------------------------------------------
(* The state machine                                                       *)

\* The threads that share the orchestrator, and a thread outside encrypt
Threads == 1..MaxThreads
NoCall  == [pc |-> "idle", field |-> 1, length |-> 0, loaded |-> 0]

\* The orchestrator object
Self ==
    [profile |-> profile, config |-> config, layer1 |-> layer1, layer5 |-> layer5,
     layer6 |-> layer6, layer7 |-> layer7, performance_stats |-> performance_stats]

-----------------------------------------------------------------------------
(* Perfect forward secrecy (security/perfect_forward_secrecy.py,           *)
(* security/pfs_integration.py).  None is <<>>: no key is ever empty.  The  *)
(* curve SECP384R1 is a small multiplicative group here, with the same     *)
(* algebra: a private key is an exponent x, its public key is g^x, and the *)
(* exchange of x with g^y gives g^(x*y).                                   *)

INFO_MESSAGE_KEY ==
    <<67,114,121,112,116,45,84,97,108,107,45,77,101,115,115,97,103,101,75,101,121>>
INFO_CHAIN_KEY == <<67,114,121,112,116,45,84,97,108,107,45,67,104,97,105,110,75,101,121>>
INFO_ROOT_KEY  == <<67,114,121,112,116,45,84,97,108,107,45,82,111,111,116,75,101,121>>

\* bytes.hex() and bytes.fromhex(): two lower-case digits per byte
HexDigit(n) == IF n < 10 THEN 48 + n ELSE 87 + n
HexValue(c) == IF c >= 97 THEN c - 87 ELSE c - 48
hex(b)      == Bytes([p \in 1..(2 * Len(b)) |->
                   IF p % 2 = 1 THEN HexDigit(b[(p + 1) \div 2] \div 16)
                   ELSE HexDigit(b[p \div 2] % 16)])
fromhex(s)  == Bytes([i \in 1..(Len(s) \div 2) |->
                   16 * HexValue(s[2 * i - 1]) + HexValue(s[2 * i])])

RECURSIVE ModPow(_, _, _)
ModPow(base, exponent, modulus) ==
    IF exponent = 0 THEN 1
    ELSE LET half == ModPow(base, exponent \div 2, modulus)
             sq   == (half * half) % modulus
         IN  IF exponent % 2 = 1 THEN (sq * base) % modulus ELSE sq

\* HKDF(SHA256, length <= 64, salt, info).derive(ikm); salt None is 32 zeros
HKDF(length, salt, info, ikm) ==
    LET expand(prk) ==
            LET t1 == HmacSha256(prk, info \o <<1>>)
            IN  Slice(t1 \o HmacSha256(prk, t1 \o info \o <<2>>), 0, length)
    IN  expand(HmacSha256(IF salt = <<>> THEN Repeat(0, 32) ELSE salt, ikm))

\* DoubleRatchet._generate_dh_keypair on the exponent the generator draws:
\* (private_key, public_key_bytes)
generate_dh_keypair(x) == <<x, PackH(ModPow(2, x, 32749))>>

\* DoubleRatchet._dh_compute; the private key of a ratchet that has none is
\* None, and None.exchange raises
dh_compute(private_key, public_key_bytes) ==
    LET ECDH_SharedSecret == <<69,67,68,72,45,83,104,97,114,101,100,83,101,99,114,101,116>>
    IN  IF Len(public_key_bytes) # 2 THEN Err("ValueError")
        ELSE IF private_key = <<>> THEN Err("AttributeError")
        ELSE Ok(HKDF(32, <<>>, ECDH_SharedSecret,
                     PackH(ModPow(UnpackH(public_key_bytes), private_key[1], 32749))))

\* DoubleRatchet._kdf_rk: (new_root_key, new_chain_key)
kdf_rk(root_key, dh_output) ==
    LET split(output) == [new_root_key  |-> Slice(output, 0, 32),
                          new_chain_key |-> From(output, 32)]
    IN  split(HKDF(64, root_key, INFO_ROOT_KEY, dh_output))

\* DoubleRatchet._kdf_ck: (new_chain_key, message_key); hmac.new(None, ...)
\* raises
kdf_ck(chain_key) ==
    IF chain_key = <<>> THEN Err("TypeError")
    ELSE Ok([new_chain_key |-> HmacSha256(chain_key, <<2>> \o INFO_CHAIN_KEY),
             message_key   |-> HmacSha256(chain_key, <<1>> \o INFO_MESSAGE_KEY)])

\* DoubleRatchet.__init__
DoubleRatchet ==
    [dh_private_key |-> <<>>, dh_public_key |-> <<>>, dh_remote_public_key |-> <<>>,
     root_key |-> <<>>, sending_chain_key |-> <<>>, receiving_chain_key |-> <<>>,
     sending_message_number |-> 0, receiving_message_number |-> 0,
     previous_sending_chain_length |-> 0, skipped_message_keys |-> {}]

\* DoubleRatchet.initialize_alice: the ratchet afterwards and what it returns
initialize_alice(self, bob_public_key, shared_secret, x, time) ==
    LET pair == generate_dh_keypair(x)
        keyed(dh_output) ==
            IF ~dh_output.ok THEN [res |-> dh_output,
                                   self |-> [self EXCEPT !.dh_private_key = <<pair[1]>>,
                                                         !.dh_public_key = pair[2]]]
            ELSE [res  |-> Ok([public_key |-> hex(pair[2]), timestamp |-> time]),
                  self |-> [self EXCEPT
                      !.dh_private_key = <<pair[1]>>,
                      !.dh_public_key = pair[2],
                      !.root_key = kdf_rk(shared_secret, dh_output.val).new_root_key,
                      !.sending_chain_key = kdf_rk(shared_secret, dh_output.val).new_chain_key,
                      !.dh_remote_public_key = bob_public_key,
                      !.sending_message_number = 0,
                      !.receiving_message_number = 0]]
    IN  keyed(dh_compute(<<pair[1]>>, bob_public_key))

\* DoubleRatchet.initialize_bob
initialize_bob(self, alice_public_key, shared_secret, x, time) ==
    LET pair == generate_dh_keypair(x)
        keyed(dh_output) ==
            IF ~dh_output.ok THEN [res |-> dh_output,
                                   self |-> [self EXCEPT !.dh_private_key = <<pair[1]>>,
                                                         !.dh_public_key = pair[2]]]
            ELSE [res  |-> Ok([public_key |-> hex(pair[2]), timestamp |-> time]),
                  self |-> [self EXCEPT
                      !.dh_private_key = <<pair[1]>>,
                      !.dh_public_key = pair[2],
                      !.root_key = kdf_rk(shared_secret, dh_output.val).new_root_key,
                      !.receiving_chain_key =
                          kdf_rk(shared_secret, dh_output.val).new_chain_key,
                      !.dh_remote_public_key = alice_public_key,
                      !.sending_message_number = 0,
                      !.receiving_message_number = 0]]
    IN  keyed(dh_compute(<<pair[1]>>, alice_public_key))

\* DoubleRatchet._dh_ratchet_sending: a new key pair, then the root key and
\* the sending chain from the exchange with the remote key
dh_ratchet_sending(self, x) ==
    LET pair  == generate_dh_keypair(x)
        fresh == [self EXCEPT !.dh_private_key = <<pair[1]>>, !.dh_public_key = pair[2]]
        keyed(dh_output) ==
            IF ~dh_output.ok THEN [res |-> dh_output, self |-> fresh]
            ELSE [res  |-> Ok(<<>>),
                  self |-> [fresh EXCEPT
                      !.root_key = kdf_rk(self.root_key, dh_output.val).new_root_key,
                      !.sending_chain_key =
                          kdf_rk(self.root_key, dh_output.val).new_chain_key,
                      !.previous_sending_chain_length = self.sending_message_number,
                      !.sending_message_number = 0]]
    IN  keyed(dh_compute(<<pair[1]>>, self.dh_remote_public_key))

\* DoubleRatchet._dh_ratchet_receiving: the remote key is stored before the
\* exchange is computed
dh_ratchet_receiving(self, remote_public_key) ==
    LET stored == [self EXCEPT !.dh_remote_public_key = remote_public_key]
        keyed(dh_output) ==
            IF ~dh_output.ok THEN [res |-> dh_output, self |-> stored]
            ELSE [res  |-> Ok(<<>>),
                  self |-> [stored EXCEPT
                      !.root_key = kdf_rk(self.root_key, dh_output.val).new_root_key,
                      !.receiving_chain_key =
                          kdf_rk(self.root_key, dh_output.val).new_chain_key,
                      !.receiving_message_number = 0]]
    IN  keyed(dh_compute(self.dh_private_key, remote_public_key))

\* DoubleRatchet.ratchet_encrypt: the header and the message key of this
\* message, then the ratchet for the next one
ratchet_encrypt(self, plaintext, x, time) ==
    LET ck == kdf_ck(self.sending_chain_key)
        header == [dh_public_key         |-> hex(self.dh_public_key),
                   previous_chain_length |-> self.previous_sending_chain_length,
                   message_number        |-> self.sending_message_number]
        ratcheted(r) ==
            [res  |-> IF ~r.res.ok THEN r.res
                      ELSE Ok([header |-> header, message_key |-> hex(ck.val.message_key),
                               timestamp |-> time]),
             self |-> r.self]
    IN  IF ~ck.ok THEN [res |-> ck, self |-> self]
        ELSE IF self.dh_public_key = <<>>
        THEN [res  |-> Err("AttributeError"),
              self |-> [self EXCEPT !.sending_chain_key = ck.val.new_chain_key]]
        ELSE ratcheted(dh_ratchet_sending(
                 [self EXCEPT !.sending_chain_key = ck.val.new_chain_key,
                              !.sending_message_number = @ + 1], x))

RECURSIVE skip_message_keys(_, _)
\* DoubleRatchet._skip_message_keys: the keys of the messages before until
\* are derived and kept under "<remote key>:<number>"
skip_message_keys(self, until) ==
    IF self.receiving_message_number + 100 < until
    THEN [res |-> Err("Too many skipped messages"), self |-> self]
    ELSE IF ~(self.receiving_message_number < until) THEN [res |-> Ok(<<>>), self |-> self]
    ELSE LET ck == kdf_ck(self.receiving_chain_key)
             key_id == <<hex(self.dh_remote_public_key), self.receiving_message_number>>
         IN  IF ~ck.ok THEN [res |-> ck, self |-> self]
             ELSE skip_message_keys(
                      [self EXCEPT
                          !.receiving_chain_key = ck.val.new_chain_key,
                          !.skipped_message_keys =
                              {k \in @ : k[1] # key_id} \cup {<<key_id, ck.val.message_key>>},
                          !.receiving_message_number = @ + 1], until)

\* DoubleRatchet.ratchet_decrypt: the message key for the header; the key
\* passed in is not used
ratchet_decrypt(self, header, message_key_hex) ==
    LET remote_public_key == fromhex(header.dh_public_key)
        derive(s) ==
            LET ck == kdf_ck(s.self.receiving_chain_key)
            IN  IF ~s.res.ok THEN s
                ELSE IF ~ck.ok THEN [res |-> ck, self |-> s.self]
                ELSE [res  |-> Ok(ck.val.message_key),
                      self |-> [s.self EXCEPT !.receiving_chain_key = ck.val.new_chain_key,
                                              !.receiving_message_number = @ + 1]]
        skip(r) == IF ~r.res.ok THEN r
                   ELSE derive(skip_message_keys(r.self, header.message_number))
        ratchet(s) == IF ~s.res.ok THEN s
                      ELSE dh_ratchet_receiving(s.self, remote_public_key)
    IN  IF remote_public_key # self.dh_remote_public_key
        THEN skip(ratchet(skip_message_keys(self, header.previous_chain_length)))
        ELSE skip([res |-> Ok(<<>>), self |-> self])

\* DoubleRatchet.get_state: the private key and the skipped keys are not part
\* of it
get_state(self) ==
    [dh_public_key                 |-> hex(self.dh_public_key),
     dh_remote_public_key          |-> hex(self.dh_remote_public_key),
     root_key                      |-> hex(self.root_key),
     sending_chain_key             |-> hex(self.sending_chain_key),
     receiving_chain_key           |-> hex(self.receiving_chain_key),
     sending_message_number        |-> self.sending_message_number,
     receiving_message_number      |-> self.receiving_message_number,
     previous_sending_chain_length |-> self.previous_sending_chain_length]

\* DoubleRatchet.load_state, on a ratchet
load_state(self, state) ==
    [self EXCEPT
        !.dh_public_key                 = fromhex(state.dh_public_key),
        !.dh_remote_public_key          = fromhex(state.dh_remote_public_key),
        !.root_key                      = fromhex(state.root_key),
        !.sending_chain_key             = fromhex(state.sending_chain_key),
        !.receiving_chain_key           = fromhex(state.receiving_chain_key),
        !.sending_message_number        = state.sending_message_number,
        !.receiving_message_number      = state.receiving_message_number,
        !.previous_sending_chain_length = state.previous_sending_chain_length]

\* A dict with one more entry
Put(d, key, value) == [k \in DOMAIN d \cup {key} |-> IF k = key THEN value ELSE d[k]]

\* PerfectForwardSecrecy._get_conversation_id: "<smaller id>:<larger id>"
get_conversation_id(user1_id, user2_id) ==
    IF StrLessEq(user1_id, user2_id) THEN user1_id \o <<58>> \o user2_id
    ELSE user2_id \o <<58>> \o user1_id

\* pbkdf2_hmac('sha256', conversation_id, b'CryptTalk-PFS-InitialSecret',
\* iterations=100000, dklen=32), cut to its first iteration
initial_shared_secret(conversation_id) ==
    HmacSha256(conversation_id,
               <<67,114,121,112,116,84,97,108,107,45,80,70,83,45,73,110,105,116,105,97,
                 108,83,101,99,114,101,116>> \o <<0, 0, 0, 1>>)

\* PerfectForwardSecrecy.initialize_session: the new ratchet replaces the
\* session of the conversation
initialize_session(sessions, user1_id, user2_id, initiator, remote_public_key, shared_secret_arg, x, time) ==
    LET conversation_id == get_conversation_id(user1_id, user2_id)
        shared_secret == IF shared_secret_arg = <<>>
                         THEN initial_shared_secret(conversation_id)
                         ELSE shared_secret_arg
        stored(init) ==
            IF ~init.res.ok THEN [res |-> init.res, sessions |-> sessions]
            ELSE [res      |-> Ok([conversation_id |-> conversation_id,
                                   init_data       |-> init.res.val,
                                   shared_secret   |-> hex(shared_secret)]),
                  sessions |-> Put(sessions, conversation_id, init.self)]
    IN  IF remote_public_key = <<>>
        THEN [res |-> Err(IF initiator THEN "Initiator needs remote public key"
                          ELSE "Responder needs remote public key"),
              sessions |-> sessions]
        ELSE IF initiator
        THEN stored(initialize_alice(DoubleRatchet, remote_public_key, shared_secret, x, time))
        ELSE stored(initialize_bob(DoubleRatchet, remote_public_key, shared_secret, x, time))

\* PerfectForwardSecrecy.encrypt_message: the ratchet of the conversation is
\* changed in place
encrypt_message(sessions, user1_id, user2_id, plaintext, x, time) ==
    LET conversation_id == get_conversation_id(user1_id, user2_id)
        kept(r) == [res |-> r.res, sessions |-> Put(sessions, conversation_id, r.self)]
    IN  IF conversation_id \notin DOMAIN sessions
        THEN [res |-> Err("No PFS session found for conversation"), sessions |-> sessions]
        ELSE kept(ratchet_encrypt(sessions[conversation_id], plaintext, x, time))

\* PerfectForwardSecrecy.decrypt_message
decrypt_message(sessions, user1_id, user2_id, header, message_key_hex) ==
    LET conversation_id == get_conversation_id(user1_id, user2_id)
        kept(r) == [res |-> r.res, sessions |-> Put(sessions, conversation_id, r.self)]
    IN  IF conversation_id \notin DOMAIN sessions
        THEN [res |-> Err("No PFS session found for conversation"), sessions |-> sessions]
        ELSE kept(ratchet_decrypt(sessions[conversation_id], header, message_key_hex))

\* PerfectForwardSecrecy.load_session_state: a new ratchet with the state
load_session_state(sessions, user1_id, user2_id, state) ==
    Put(sessions, get_conversation_id(user1_id, user2_id), load_state(DoubleRatchet, state))

\* PFSEncryptionIntegration(mongo_db): self is [sessions, mongo_db,
\* pfs_sessions], with the collection mongo_db.pfs_sessions a dict from
\* conversation_id to [session_data, session_state]
PFSEncryptionIntegration(mongo_db, collection) ==
    [sessions |-> <<>>, mongo_db |-> mongo_db, pfs_sessions |-> collection]

\* PFSEncryptionIntegration._load_session_from_db: the document (or None) and
\* self with the session rebuilt from the document's session_state
load_session_from_db(self, user1_id, user2_id) ==
    LET conversation_id == get_conversation_id(user1_id, user2_id)
        doc == self.pfs_sessions[conversation_id]
    IN  IF ~self.mongo_db \/ conversation_id \notin DOMAIN self.pfs_sessions
        THEN [doc |-> <<>>, self |-> self]
        ELSE [doc  |-> <<doc>>,
              self |-> IF doc.session_state = <<>> THEN self
                       ELSE [self EXCEPT !.sessions =
                                load_session_state(self.sessions, user1_id, user2_id,
                                                   doc.session_state[1])]]

\* PFSEncryptionIntegration._update_session_in_db: update_one without upsert
update_session_in_db(self, user1_id, user2_id) ==
    LET conversation_id == get_conversation_id(user1_id, user2_id)
    IN  IF ~self.mongo_db \/ conversation_id \notin DOMAIN self.sessions
           \/ conversation_id \notin DOMAIN self.pfs_sessions
        THEN self
        ELSE [self EXCEPT !.pfs_sessions[conversation_id].session_state =
                              <<get_state(self.sessions[conversation_id])>>]

\* PFSEncryptionIntegration._save_session_to_db: update_one with upsert
save_session_to_db(self, user1_id, user2_id, session_data) ==
    LET conversation_id == get_conversation_id(user1_id, user2_id)
    IN  IF ~self.mongo_db THEN self
        ELSE [self EXCEPT !.pfs_sessions =
                 Put(@, conversation_id,
                     [session_data  |-> session_data,
                      session_state |-> IF conversation_id \in DOMAIN @
                                        THEN @[conversation_id].session_state
                                        ELSE <<>>])]

\* PFSEncryptionIntegration.initialize_conversation: the remote key of the
\* session is the public half of a key pair generated here, whose private half
\* is dropped
initialize_conversation(self, sender_id, recipient_id, initiator, x_identity, x, time) ==
    LET existing == load_session_from_db(self, sender_id, recipient_id)
        saved(s) ==
            IF ~s.res.ok THEN [res |-> s.res, self |-> self]
            ELSE [res  |-> Ok([status |-> "initialized",
                               conversation_id |-> s.res.val.conversation_id,
                               public_key |-> s.res.val.init_data.public_key,
                               timestamp |-> s.res.val.init_data.timestamp]),
                  self |-> save_session_to_db([self EXCEPT !.sessions = s.sessions],
                                              sender_id, recipient_id, s.res.val)]
    IN  IF existing.doc # <<>>
        THEN [res |-> Ok([status |-> "existing"]), self |-> existing.self]
        ELSE saved(initialize_session(self.sessions, sender_id, recipient_id, initiator,
                                      generate_dh_keypair(x_identity)[2], <<>>, x, time))

\* The session is loaded from the database when it is not in memory
session_in_memory(self, sender_id, recipient_id, missing) ==
    IF get_conversation_id(sender_id, recipient_id) \in DOMAIN self.sessions
    THEN [res |-> Ok(<<>>), self |-> self]
    ELSE IF self.mongo_db
    THEN [res |-> Ok(<<>>), self |-> load_session_from_db(self, sender_id, recipient_id).self]
    ELSE [res |-> Err(missing), self |-> self]

\* PFSEncryptionIntegration.encrypt_message_with_pfs
encrypt_message_with_pfs(self, sender_id, recipient_id, plaintext, x, time) ==
    LET loaded == session_in_memory(self, sender_id, recipient_id,
                                    "No PFS session found. Initialize session first.")
        returned(e) ==
            IF ~e.res.ok THEN [res |-> e.res, self |-> [loaded.self EXCEPT !.sessions = e.sessions]]
            ELSE [res  |-> Ok([pfs_header    |-> e.res.val.header,
                               ephemeral_key |-> e.res.val.message_key,
                               timestamp     |-> e.res.val.timestamp]),
                  self |-> update_session_in_db([loaded.self EXCEPT !.sessions = e.sessions],
                                                sender_id, recipient_id)]
    IN  IF ~loaded.res.ok THEN loaded
        ELSE returned(encrypt_message(loaded.self.sessions, sender_id, recipient_id,
                                      plaintext, x, time))

\* PFSEncryptionIntegration.decrypt_message_with_pfs: the ephemeral master
\* key for 7-layer decryption
decrypt_message_with_pfs(self, sender_id, recipient_id, pfs_header, message_key_hex) ==
    LET loaded == session_in_memory(self, sender_id, recipient_id, "No PFS session found")
        returned(d) ==
            IF ~d.res.ok THEN [res |-> d.res, self |-> [loaded.self EXCEPT !.sessions = d.sessions]]
            ELSE [res  |-> d.res,
                  self |-> update_session_in_db([loaded.self EXCEPT !.sessions = d.sessions],
                                                sender_id, recipient_id)]
    IN  IF ~loaded.res.ok THEN loaded
        ELSE returned(decrypt_message(loaded.self.sessions, sender_id, recipient_id,
                                      pfs_header, message_key_hex))

-----------------------------------------------------------------------------
(* The state machine                                                       *)

\* The orchestrator object after a call
Store(self) ==
    /\ profile' = self.profile
    /\ config' = self.config
    /\ layer1' = self.layer1
    /\ layer5' = self.layer5
    /\ layer6' = self.layer6
    /\ layer7' = self.layer7
    /\ performance_stats' = self.performance_stats

NoPacket ==
    [plaintext |-> <<>>, master_key |-> <<>>, nonce |-> <<>>, profile |-> <<>>,
     time |-> 0, packet |-> <<>>, keys |-> <<>>, encryption_version |-> <<>>]

\* SevenLayerEncryption(p) for a profile name p, nothing sent yet
Init ==
    /\ \E self \in {SevenLayerEncryption(p) : p \in ProfileNames} :
          /\ profile = self.profile
          /\ config = self.config
          /\ layer1 = self.layer1
          /\ layer5 = self.layer5
          /\ layer6 = self.layer6
          /\ layer7 = self.layer7
          /\ performance_stats = self.performance_stats
    /\ now = StartTime
    /\ packet = <<>>
    /\ sent = NoPacket
    /\ result = [op |-> "init", ok |-> TRUE, val |-> <<>>, err |-> "", args |-> <<>>]
    /\ trace = <<>>
    /\ calls = 0
    /\ threads = [t \in Threads |-> NoCall]
    /\ pfs_manager = <<>>
    /\ pfs_sessions = <<>>
    /\ never_restarted = <<>>
    /\ generated = {}
    /\ encrypted_messages = <<>>
    /\ pfs_result = [op |-> "init", ok |-> TRUE, val |-> <<>>, err |-> "", args |-> <<>>]
    /\ conversation_timers = {}
    /\ messages = {}
    /\ requests = [t \in Senders |-> "idle"]
    /\ cleanup = [pc |-> "find", expired_list |-> <<>>]
    /\ utcnow = 0
    /\ object_ids = 0

\* system.encrypt(plaintext, master_key, nonce, operation_id) on the
\* orchestrator
Encrypt(plaintext, master_key, nonce, operation_id, draw) ==
    /\ calls < MaxCalls
    /\ performance_stats.operations < MaxOperations
    /\ \E r \in {encrypt(Self, plaintext, master_key, nonce, operation_id,
                          [draw EXCEPT !.time = now])} :
          /\ Store(r.self)
          /\ result' = [op |-> "encrypt", ok |-> r.res.ok, val |-> r.res.val,
                        err |-> r.res.err,
                        args |-> [plaintext |-> plaintext, master_key |-> master_key,
                                  nonce |-> nonce, operation_id |-> operation_id]]
          /\ trace' = r.trace
          /\ packet' = IF r.res.ok THEN r.res.val ELSE packet
          /\ sent' = IF r.res.ok
                     THEN [plaintext |-> plaintext, master_key |-> r.master_key,
                           nonce |-> r.nonce, profile |-> profile, time |-> now,
                           packet |-> r.res.val,
                           keys |-> [i \in 1..7 |->
                                        r.trace[CHOOSE k \in 1..7 : r.trace[k].layer = i].key],
                           encryption_version |-> <<>>]
                     ELSE sent
    /\ calls' = calls + 1
    /\ UNCHANGED <<now, threads, pfs_vars, timer_vars>>

\* system.encrypt called once more with the plaintext and the master key of
\* the packet under way; the first call's packet and layer steps are kept
\* beside the outcome
EncryptAgain(nonce, draw) ==
    /\ calls < MaxCalls
    /\ result.op = "encrypt"
    /\ result.ok
    /\ \E r \in {encrypt(Self, sent.plaintext, <<sent.master_key>>, nonce, None,
                          [draw EXCEPT !.time = now])} :
          /\ Store(r.self)
          /\ result' = [op |-> "encrypt_again", ok |-> r.res.ok, val |-> r.res.val,
                        err |-> r.res.err,
                        args |-> [plaintext |-> sent.plaintext,
                                  master_key |-> <<sent.master_key>>,
                                  nonce |-> nonce, operation_id |-> None],
                        first |-> [packet |-> sent.packet, nonce |-> sent.nonce,
                                   time |-> sent.time, trace |-> trace]]
          /\ trace' = r.trace
          /\ packet' = IF r.res.ok THEN r.res.val ELSE packet
    /\ calls' = calls + 1
    /\ UNCHANGED <<now, sent, threads, pfs_vars, timer_vars>>

\* system.decrypt(packet, master_key) on the orchestrator
Decrypt(master_key) ==
    /\ calls < MaxCalls
    /\ \E r \in {decrypt(Self, packet, master_key, now)} :
          /\ Store(r.self)
          /\ result' = [op |-> "decrypt", ok |-> r.res.ok, val |-> r.res.val,
                        err |-> r.res.err,
                        args |-> [ciphertext |-> packet, master_key |-> master_key,
                                  profile |-> profile]]
          /\ trace' = r.trace
    /\ calls' = calls + 1
    /\ UNCHANGED <<now, packet, sent, threads, pfs_vars, timer_vars>>

\* system.change_profile(new_profile); an unknown name raises and changes nothing
ChangeProfile(new_profile) ==
    /\ \E r \in {change_profile(Self, new_profile)} :
          /\ Store(r.self)
          /\ result' = [op |-> "change_profile", ok |-> r.res.ok, val |-> r.res.val,
                        err |-> r.res.err, args |-> [new_profile |-> new_profile]]
    /\ trace' = <<>>
    /\ UNCHANGED <<now, packet, sent, calls, threads, pfs_vars, timer_vars>>

\* Time passes while a packet is under way
Tick ==
    /\ packet # <<>>
    /\ now < StartTime + MaxTicks * TickStep
    /\ now' = now + TickStep
    /\ UNCHANGED <<profile, config, layer1, layer5, layer6, layer7, performance_stats,
                   packet, sent, result, trace, calls, threads, pfs_vars, timer_vars>>

\* One bit of the packet under way is flipped, once
Tamper(pos, bit) ==
    /\ packet # <<>>
    /\ packet = sent.packet
    /\ pos \in 1..Len(packet)
    /\ packet' = [packet EXCEPT ![pos] = IF (@ \div (2 ^ bit)) % 2 = 1 THEN @ - 2 ^ bit
                                         ELSE @ + 2 ^ bit]
    /\ UNCHANGED <<profile, config, layer1, layer5, layer6, layer7, performance_stats,
                   now, sent, result, trace, calls, threads, pfs_vars, timer_vars>>

\* The packet under way is cut down to its first n bytes, once
Truncate(n) ==
    /\ packet # <<>>
    /\ packet = sent.packet
    /\ n \in 1..(Len(packet) - 1)
    /\ packet' = SubSeq(packet, 1, n)
    /\ UNCHANGED <<profile, config, layer1, layer5, layer6, layer7, performance_stats,
                   now, sent, result, trace, calls, threads, pfs_vars, timer_vars>>

\* _parse_system_header(_create_system_header(nonce, p) + payload)
ParseCreatedHeader(nonce, p, payload) ==
    /\ packet = <<>>
    /\ \E header \in {create_system_header(nonce, p, now)} :
          /\ header.ok
          /\ \E r \in {parse_system_header(header.val \o payload)} :
                 result' = [op |-> "parse_system_header", ok |-> r.ok, val |-> r.val,
                            err |-> r.err,
                            args |-> [nonce |-> nonce, profile |-> p, time |-> now,
                                      payload |-> payload,
                                      data |-> header.val \o payload]]
    /\ trace' = <<>>
    /\ UNCHANGED <<profile, config, layer1, layer5, layer6, layer7, performance_stats,
                   now, packet, sent, calls, threads, pfs_vars, timer_vars>>

\* layer3.encrypt_stream(data_stream, master_key, nonce) on a new layer
\* object, everything it yields joined, and layer3.decrypt and the one-shot
\* layer3.encrypt beside it
L3EncryptStream(data_stream, master_key, nonce) ==
    /\ result.op = "init"
    /\ \E r \in {L3_encrypt_stream(data_stream, master_key, nonce)} :
          /\ r.ok
          /\ \E envelope \in {Join(r.val)} :
                 result' = [op |-> "l3_encrypt_stream", ok |-> r.ok, val |-> envelope,
                            err |-> r.err,
                            args |-> [data_stream |-> data_stream,
                                      master_key |-> master_key, nonce |-> nonce],
                            decrypted |-> L3_decrypt(envelope, master_key, nonce),
                            one_shot |-> L3_encrypt(Join(data_stream), master_key, nonce)]
    /\ trace' = <<>>
    /\ UNCHANGED <<profile, config, layer1, layer5, layer6, layer7, performance_stats,
                   now, packet, sent, calls, threads, pfs_vars, timer_vars>>

\* layerN.encrypt(data, master_key, nonce) and then layerN.decrypt of what it
\* returned with master_key2 and nonce2, on the layer objects of a new
\* orchestrator
LayerRoundTrip(layer_num, data, master_key, nonce, master_key2, nonce2, draw) ==
    /\ result.op = "init"
    /\ \E e \in {layer_encrypt(Self, layer_num, data, master_key, nonce,
                                [draw EXCEPT !.time = now])} :
          /\ e.res.ok
          /\ \E d \in {layer_decrypt(e.self, layer_num, e.res.val, master_key2, nonce2,
                                      now)} :
                 /\ Store(d.self)
                 /\ result' = [op |-> "layer_round_trip", ok |-> d.res.ok,
                               val |-> e.res.val, err |-> d.res.err,
                               args |-> [layer |-> layer_num, data |-> data,
                                         master_key |-> master_key, nonce |-> nonce,
                                         master_key2 |-> master_key2,
                                         nonce2 |-> nonce2],
                               decrypted |-> d.res]
    /\ trace' = <<>>
    /\ UNCHANGED <<now, packet, sent, calls, threads, pfs_vars, timer_vars>>

\* layer5._pad_to_blocks(data), and _unpad_blocks of what it returned
L5PadToBlocks(data) ==
    /\ result.op = "init"
    /\ \E r \in {L5_pad_to_blocks(data)} :
          result' = [op |-> "l5_pad_to_blocks", ok |-> TRUE, val |-> r.padded_data,
                     err |-> "", args |-> [data |-> data],
                     unpadded |-> L5_unpad_blocks(r.padded_data, r.original_length)]
    /\ trace' = <<>>
    /\ UNCHANGED <<profile, config, layer1, layer5, layer6, layer7, performance_stats,
                   now, packet, sent, calls, threads, pfs_vars, timer_vars>>

\* encrypt_message(message, user1_id, user2_id); the returned dict is stored
\* when it holds a packet
EncryptMessage(message, user1_id, user2_id, draw) ==
    /\ calls < MaxCalls
    /\ packet = <<>>
    /\ \E r \in {wrapper_encrypt_message(message, user1_id, user2_id,
                                         [draw EXCEPT !.time = now])} :
          /\ result' = [op |-> "encrypt_message", ok |-> ~r.raised, val |-> r.returned,
                        err |-> "", core |-> r.core,
                        args |-> [message |-> message, user1_id |-> user1_id,
                                  user2_id |-> user2_id]]
          /\ packet' = r.core.val
          /\ sent' = IF r.core.ok
                     THEN [plaintext |-> message,
                           master_key |-> generate_user_pair_key(user1_id, user2_id),
                           nonce |-> draw.nonce, profile |-> BALANCED, time |-> now,
                           packet |-> r.core.val, keys |-> <<>>,
                           encryption_version |-> r.returned.encryption_version]
                     ELSE sent
    /\ trace' = <<>>
    /\ calls' = calls + 1
    /\ UNCHANGED <<profile, config, layer1, layer5, layer6, layer7, performance_stats, now,
                   threads, pfs_vars, timer_vars>>

\* encrypt_file_data(file_data, user1_id, user2_id)
EncryptFileData(file_data, user1_id, user2_id, draw) ==
    /\ calls < MaxCalls
    /\ packet = <<>>
    /\ \E r \in {wrapper_encrypt_file_data(file_data, user1_id, user2_id,
                                           [draw EXCEPT !.time = now])} :
          /\ result' = [op |-> "encrypt_file_data", ok |-> ~r.raised, val |-> r.returned,
                        err |-> "", core |-> r.core,
                        args |-> [file_data |-> file_data, user1_id |-> user1_id,
                                  user2_id |-> user2_id]]
          /\ packet' = r.core.val
          /\ sent' = IF r.core.ok
                     THEN [plaintext |-> file_data,
                           master_key |-> generate_file_key_from_users(user1_id, user2_id),
                           nonce |-> draw.nonce, profile |-> MAXIMUM, time |-> now,
                           packet |-> r.core.val, keys |-> <<>>,
                           encryption_version |-> r.returned.encryption_version]
                     ELSE sent
    /\ trace' = <<>>
    /\ calls' = calls + 1
    /\ UNCHANGED <<profile, config, layer1, layer5, layer6, layer7, performance_stats, now,
                   threads, pfs_vars, timer_vars>>

\* decrypt_message(encrypted_data, user1_id, user2_id) on the stored dict
DecryptMessage(user1_id, user2_id) ==
    /\ calls < MaxCalls
    /\ packet # <<>>
    /\ \E r \in {wrapper_decrypt_message(
                     [encrypted_message  |-> urlsafe_b64encode(packet),
                      security_profile   |-> sent.profile,
                      encryption_version |-> sent.encryption_version],
                     user1_id, user2_id, now)} :
          result' = [op |-> "decrypt_message", ok |-> ~r.raised, val |-> r.returned,
                     err |-> "", core |-> r.core,
                     args |-> [encrypted_message |-> urlsafe_b64encode(packet),
                               user1_id |-> user1_id, user2_id |-> user2_id]]
    /\ trace' = <<>>
    /\ calls' = calls + 1
    /\ UNCHANGED <<profile, config, layer1, layer5, layer6, layer7, performance_stats,
                   now, packet, sent, threads, pfs_vars, timer_vars>>

\* encrypt on a plaintext of n bytes under a key of num_rounds layer-5 rounds,
\* followed through layer 5 by the lengths
EncryptLength(n, num_rounds) ==
    /\ \E r \in {encrypt_lengths(n, num_rounds)} :
          /\ result' = [op |-> "encrypt_length", ok |-> r.layer5.ok, val |-> <<>>,
                        err |-> r.layer5.err,
                        args |-> [length |-> n, num_rounds |-> num_rounds]]
          /\ trace' = IF r.layer5.ok THEN Append(r.lengths, r.layer5.val) ELSE r.lengths
    /\ UNCHANGED <<profile, config, layer1, layer5, layer6, layer7, performance_stats,
                   now, packet, sent, calls, threads, pfs_vars, timer_vars>>

\* The statements  self.performance_stats[field] += ...  at the end of
\* encrypt, in the order the code makes them.  Each is a load of the entry, an
\* addition and a store; nothing in the class holds a lock around them.
STATS_UPDATES == <<"operations", "bytes_processed">>

\* Thread t calls encrypt on the shared instance and runs it up to the
\* statistics update (the layer calls are taken as one step)
ThreadEncrypt(t, plaintext, draw) ==
    /\ threads[t].pc = "idle"
    /\ \E r \in {encrypt(Self, plaintext, <<Key1>>, <<Nonce1>>, None,
                          [draw EXCEPT !.time = now])} :
          /\ r.res.ok
          /\ Store([r.self EXCEPT !.performance_stats = performance_stats])
          /\ threads' = [threads EXCEPT ![t] = [pc |-> "load", field |-> 1,
                                                length |-> Len(plaintext), loaded |-> 0]]
    /\ UNCHANGED <<now, packet, sent, result, trace, calls, pfs_vars, timer_vars>>

\* Thread t loads the entry of the update it is at
ThreadLoad(t) ==
    /\ threads[t].pc = "load"
    /\ threads' = [threads EXCEPT
                      ![t].pc = "store",
                      ![t].loaded = performance_stats[STATS_UPDATES[threads[t].field]]]
    /\ UNCHANGED <<profile, config, layer1, layer5, layer6, layer7, performance_stats,
                   now, packet, sent, result, trace, calls, pfs_vars, timer_vars>>

\* Thread t stores the sum; after the last update the timings are appended
\* (list.append, one step) and encrypt returns
ThreadStore(t) ==
    /\ threads[t].pc = "store"
    /\ LET field  == STATS_UPDATES[threads[t].field]
           amount == IF field = "operations" THEN 1 ELSE threads[t].length
           last   == threads[t].field = Len(STATS_UPDATES)
       IN  /\ performance_stats' =
                  [performance_stats EXCEPT
                      ![field] = threads[t].loaded + amount,
                      !.layer_timings.encrypt = IF last THEN @ + 1 ELSE @]
           /\ threads' = [threads EXCEPT
                             ![t].pc = IF last THEN "done" ELSE "load",
                             ![t].field = IF last THEN @ ELSE @ + 1]
    /\ UNCHANGED <<profile, config, layer1, layer5, layer6, layer7,
                   now, packet, sent, result, trace, calls, pfs_vars, timer_vars>>

\* The integration object with the collection it reads and writes
World == [sessions     |-> pfs_manager[1].sessions,
          mongo_db     |-> pfs_manager[1].mongo_db,
          pfs_sessions |-> pfs_sessions]

StoreWorld(self) ==
    /\ pfs_manager' = <<[sessions |-> self.sessions, mongo_db |-> self.mongo_db]>>
    /\ pfs_sessions' = self.pfs_sessions

\* pfs_manager = PFSEncryptionIntegration(mongo_db), at start-up and at every
\* restart of the server: the sessions in memory are gone, the collection stays
NewIntegration(mongo_db) ==
    /\ calls < MaxPfsCalls
    /\ pfs_manager' = <<[sessions |-> <<>>, mongo_db |-> mongo_db]>>
    /\ never_restarted' = IF never_restarted = <<>>
                          THEN <<PFSEncryptionIntegration(mongo_db, pfs_sessions)>>
                          ELSE never_restarted
    /\ pfs_result' = [op |-> "new_integration", ok |-> TRUE, val |-> <<>>, err |-> "",
                      args |-> [mongo_db |-> mongo_db]]
    /\ calls' = calls + 1
    /\ UNCHANGED <<profile, config, layer1, layer5, layer6, layer7, performance_stats,
                   now, packet, sent, result, trace, threads, pfs_sessions, generated,
                   encrypted_messages, timer_vars>>

\* pfs_manager.initialize_conversation(sender_id, recipient_id, initiator)
InitializeConversation(sender_id, recipient_id, initiator, x_identity, x) ==
    /\ calls < MaxPfsCalls
    /\ pfs_manager # <<>>
    /\ x_identity # x
    /\ {x_identity, x} \cap generated = {}
    /\ \E r \in {initialize_conversation(World, sender_id, recipient_id, initiator,
                                         x_identity, x, now)},
          g \in {initialize_conversation(never_restarted[1], sender_id, recipient_id,
                                         initiator, x_identity, x, now)} :
          /\ StoreWorld(r.self)
          /\ never_restarted' = <<g.self>>
          /\ generated' = IF r.res.ok /\ r.res.val.status = "existing"
                             /\ g.res.ok /\ g.res.val.status = "existing"
                          THEN generated
                          ELSE generated \cup {x_identity, x}
          /\ pfs_result' = [op |-> "initialize_conversation", ok |-> r.res.ok,
                            val |-> r.res.val, err |-> r.res.err,
                            args |-> [sender_id |-> sender_id,
                                      recipient_id |-> recipient_id,
                                      initiator |-> initiator]]
    /\ calls' = calls + 1
    /\ UNCHANGED <<profile, config, layer1, layer5, layer6, layer7, performance_stats,
                   now, packet, sent, result, trace, threads, encrypted_messages, timer_vars>>

\* pfs_manager.encrypt_message_with_pfs(sender_id, recipient_id, plaintext);
\* what it returns is appended to encrypted_messages, as in pfs_demo
EncryptMessageWithPfs(sender_id, recipient_id, plaintext, x) ==
    /\ calls < MaxPfsCalls
    /\ pfs_manager # <<>>
    /\ Len(encrypted_messages) < MaxMessages
    /\ x \notin generated
    /\ \E r \in {encrypt_message_with_pfs(World, sender_id, recipient_id, plaintext, x, now)},
          g \in {encrypt_message_with_pfs(never_restarted[1], sender_id, recipient_id,
                                          plaintext, x, now)} :
          /\ StoreWorld(r.self)
          /\ never_restarted' = <<g.self>>
          /\ encrypted_messages' =
                 IF r.res.ok
                 THEN Append(encrypted_messages,
                             [message       |-> plaintext,
                              pfs_header    |-> r.res.val.pfs_header,
                              ephemeral_key |-> r.res.val.ephemeral_key,
                              timestamp     |-> r.res.val.timestamp])
                 ELSE encrypted_messages
          /\ pfs_result' = [op |-> "encrypt_message_with_pfs", ok |-> r.res.ok,
                            val |-> r.res.val, err |-> r.res.err,
                            args |-> [sender_id |-> sender_id,
                                      recipient_id |-> recipient_id]]
    /\ generated' = generated \cup {x}
    /\ calls' = calls + 1
    /\ UNCHANGED <<profile, config, layer1, layer5, layer6, layer7, performance_stats,
                   now, packet, sent, result, trace, threads, timer_vars>>

\* pfs_manager.decrypt_message_with_pfs(sender_id, recipient_id, pfs_header,
\* message_key_hex) for message i of encrypted_messages, as in pfs_demo
DecryptMessageWithPfs(sender_id, recipient_id, i) ==
    /\ calls < MaxPfsCalls
    /\ pfs_manager # <<>>
    /\ i \in 1..Len(encrypted_messages)
    /\ \E r \in {decrypt_message_with_pfs(World, sender_id, recipient_id,
                                          encrypted_messages[i].pfs_header,
                                          encrypted_messages[i].ephemeral_key)},
          g \in {decrypt_message_with_pfs(never_restarted[1], sender_id, recipient_id,
                                          encrypted_messages[i].pfs_header,
                                          encrypted_messages[i].ephemeral_key)} :
          /\ StoreWorld(r.self)
          /\ never_restarted' = <<g.self>>
          /\ pfs_result' = [op |-> "decrypt_message_with_pfs", ok |-> r.res.ok,
                            val |-> r.res.val, err |-> r.res.err,
                            args |-> [sender_id |-> sender_id,
                                      recipient_id |-> recipient_id, message |-> i],
                            reloaded |->
                                /\ get_conversation_id(sender_id, recipient_id)
                                       \notin DOMAIN World.sessions
                                /\ get_conversation_id(sender_id, recipient_id)
                                       \in DOMAIN r.self.sessions,
                            never_restarted |-> g.res]
    /\ calls' = calls + 1
    /\ UNCHANGED <<profile, config, layer1, layer5, layer6, layer7, performance_stats,
                   now, packet, sent, result, trace, threads, generated,
                   encrypted_messages, timer_vars>>

\* The engine, the PFS integration: what the self-destruct actions leave alone
engine_vars == <<profile, config, layer1, layer5, layer6, layer7, performance_stats,
                 now, packet, sent, result, trace, calls, threads>>

\* The conversation key of add_self_destruct_to_message: the two users, the
\* smaller str first
TimerUsers(users) ==
    IF StrLessEq(users[1], users[2]) THEN users ELSE <<users[2], users[1]>>

\* {"users": {"$all": [user1_id, user2_id]}}
BetweenUsers(doc, user1_id, user2_id) ==
    {user1_id, user2_id} \subseteq {doc.users[i] : i \in 1..Len(doc.users)}

\* add_message, first half: add_self_destruct_to_message(message_data,
\* from_user, mongo) upserts the conversation timer of a sender whose
\* self_destruct_timer is set; an existing document keeps its _id
AddSelfDestructToMessage(t, from_user, to_user) ==
    /\ requests[t] = "idle"
    /\ object_ids < MaxStored * 2
    /\ LET users    == TimerUsers(<<from_user, to_user>>)
           existing == {d \in conversation_timers :
                            d.user1_id = users[1] /\ d.user2_id = users[2]}
           first    == CHOOSE d \in existing : \A e \in existing : d.id <= e.id
           timer(id) == [id |-> id, user1_id |-> users[1], user2_id |-> users[2],
                         timer_minutes |-> TimerMinutes, created_at |-> utcnow,
                         expires_at |-> utcnow + TimerMinutes,
                         last_message_at |-> utcnow]
       IN  IF existing = {}
           THEN /\ conversation_timers' = conversation_timers \cup {timer(object_ids + 1)}
                /\ object_ids' = object_ids + 1
           ELSE /\ conversation_timers' =
                       (conversation_timers \ {first}) \cup {timer(first.id)}
                /\ UNCHANGED object_ids
    /\ requests' = [requests EXCEPT ![t] = "insert"]
    /\ UNCHANGED <<engine_vars, pfs_vars, messages, cleanup, utcnow>>

\* add_message, second half: mongo.db.messages.insert_one(message_data)
InsertMessage(t, from_user, to_user) ==
    /\ requests[t] = "insert"
    /\ messages' = messages \cup {[id |-> object_ids + 1, users |-> <<from_user, to_user>>,
                                   sender |-> from_user, createdAt |-> utcnow]}
    /\ object_ids' = object_ids + 1
    /\ requests' = [requests EXCEPT ![t] = "idle"]
    /\ UNCHANGED <<engine_vars, pfs_vars, conversation_timers, cleanup, utcnow>>

\* cleanup_expired_conversations: expired_list = list(find({"expires_at":
\* {"$lte": current_time}})), in the order of the _ids
CleanupFind ==
    /\ cleanup.pc = "find"
    /\ LET expired == {d \in conversation_timers : d.expires_at <= utcnow}
           listed  == CHOOSE l \in [1..Cardinality(expired) -> expired] :
                          /\ \A i, j \in 1..Cardinality(expired) :
                                 i < j => l[i].id < l[j].id
       IN  cleanup' = [pc |-> IF expired = {} THEN "sleep" ELSE "delete_messages",
                       expired_list |-> IF expired = {} THEN <<>> ELSE listed]
    /\ UNCHANGED <<engine_vars, pfs_vars, conversation_timers, messages, requests, utcnow,
                   object_ids>>

\* for timer_doc in expired_list: messages.delete_many(users $all [user1_id,
\* user2_id])
CleanupDeleteMessages ==
    /\ cleanup.pc = "delete_messages"
    /\ messages' = {m \in messages :
                       ~BetweenUsers(m, Head(cleanup.expired_list).user1_id,
                                     Head(cleanup.expired_list).user2_id)}
    /\ cleanup' = [cleanup EXCEPT !.pc = "delete_files"]
    /\ UNCHANGED <<engine_vars, pfs_vars, conversation_timers, requests, utcnow, object_ids>>

\* files.delete_many(users $all [user1_id, user2_id]); the files collection is
\* not part of the model
CleanupDeleteFiles ==
    /\ cleanup.pc = "delete_files"
    /\ cleanup' = [cleanup EXCEPT !.pc = "delete_timer"]
    /\ UNCHANGED <<engine_vars, pfs_vars, conversation_timers, messages, requests, utcnow,
                   object_ids>>

\* conversation_timers.delete_one({"_id": timer_doc["_id"]}), then the next
\* timer_doc, or time.sleep(5) after the last
CleanupDeleteTimer ==
    /\ cleanup.pc = "delete_timer"
    /\ conversation_timers' = {d \in conversation_timers :
                                  d.id # Head(cleanup.expired_list).id}
    /\ cleanup' = [pc |-> IF Tail(cleanup.expired_list) = <<>> THEN "sleep"
                          ELSE "delete_messages",
                   expired_list |-> Tail(cleanup.expired_list)]
    /\ UNCHANGED <<engine_vars, pfs_vars, messages, requests, utcnow, object_ids>>

\* time.sleep(5) returns: the loop starts over
CleanupWake ==
    /\ cleanup.pc = "sleep"
    /\ cleanup' = [cleanup EXCEPT !.pc = "find"]
    /\ UNCHANGED <<engine_vars, pfs_vars, conversation_timers, messages, requests, utcnow,
                   object_ids>>

\* A minute passes
Minute ==
    /\ utcnow < MaxMinutes
    /\ utcnow' = utcnow + 1
    /\ UNCHANGED <<engine_vars, pfs_vars, conversation_timers, messages, requests, cleanup,
                   object_ids>>

Next ==
    \/ \E plaintext \in Messages, master_key \in KeyArgs, nonce \in NonceArgs,
          draw \in Draws : Encrypt(plaintext, master_key, nonce, None, draw)
    \/ \E master_key \in DecryptKeys : Decrypt(master_key)
    \/ \E new_profile \in ProfileArgs : ChangeProfile(new_profile)
    \/ Tick

Spec == Init /\ [][Next]_vars

\* One packet, every single-bit change of it, and its decryption
NextTamper ==
    \/ \E draw \in Draws : Encrypt(Message1, <<Key1>>, <<Nonce1>>, None, draw)
    \/ \E pos \in 1..Len(packet), bit \in TamperBits : Tamper(pos, bit)
    \/ Decrypt(Key1)

SpecTamper == Init /\ [][NextTamper]_vars

\* The wrappers around their own orchestrators
NextWrap ==
    \/ \E message \in Messages, users \in UserPairs, draw \in Draws :
          EncryptMessage(message, users[1], users[2], draw)
    \/ \E file_data \in {<<>>, File1}, users \in UserPairs, draw \in Draws :
          EncryptFileData(file_data, users[1], users[2], draw)
    \/ \E users \in UserPairs : DecryptMessage(users[1], users[2])
    \/ Tick

SpecWrap == Init /\ [][NextWrap]_vars

NextLen ==
    \E n \in MessageLengths, num_rounds \in MIN_ROUNDS..MAX_ROUNDS :
        EncryptLength(n, num_rounds)

SpecLen == Init /\ [][NextLen]_vars

\* Several threads inside encrypt on one instance
NextThreads ==
    \/ \E t \in Threads, plaintext \in {Message1, File1}, draw \in Draws :
          ThreadEncrypt(t, plaintext, draw)
    \/ \E t \in Threads : ThreadLoad(t)
    \/ \E t \in Threads : ThreadStore(t)

SpecThreads == Init /\ [][NextThreads]_vars

\* The layers called one by one, as their own test code calls them
NextLayers ==
    \/ \E data_stream \in Streams, master_key \in LayerKeys, nonce \in LayerNonces :
          L3EncryptStream(data_stream, master_key, nonce)
    \/ \E layer_num \in 1..6, data \in LayerData, master_key \in LayerKeys,
          nonce \in LayerNonces, master_key2 \in LayerKeys, nonce2 \in LayerNonces,
          draw \in Draws :
          LayerRoundTrip(layer_num, data, master_key, nonce, master_key2, nonce2, draw)
    \/ \E layer_num \in {1, 5, 6}, data \in LayerData, master_key \in RoundKeys,
          nonce \in LayerNonces, draw \in Draws :
          LayerRoundTrip(layer_num, data, master_key, nonce, master_key, nonce, draw)
    \/ \E data \in LayerData \cup {<<>>} : L5PadToBlocks(data)

SpecLayers == Init /\ [][NextLayers]_vars

\* A conversation under perfect forward secrecy: the integration is built (and
\* rebuilt when the server restarts), the conversation initialized, messages
\* encrypted and decrypted
NextPfs ==
    \/ \E mongo_db \in BOOLEAN : NewIntegration(mongo_db)
    \/ \E initiator \in BOOLEAN, x_identity \in PrivateKeys, x \in PrivateKeys :
          InitializeConversation(Alice, Bob, initiator, x_identity, x)
    \/ \E x \in PrivateKeys : EncryptMessageWithPfs(Alice, Bob, Message1, x)
    \/ \E i \in 1..MaxMessages : DecryptMessageWithPfs(Alice, Bob, i)

SpecPfs == Init /\ [][NextPfs]_vars

\* Messages are sent under a self-destruct timer while the cleanup thread runs
NextDestruct ==
    \/ \E t \in Senders : AddSelfDestructToMessage(t, Alice, Bob)
    \/ \E t \in Senders : InsertMessage(t, Alice, Bob)
    \/ CleanupFind
    \/ CleanupDeleteMessages
    \/ CleanupDeleteFiles
    \/ CleanupDeleteTimer
    \/ CleanupWake
    \/ Minute

SpecDestruct == Init /\ [][NextDestruct]_vars

\* The length of the system header of the packet that was sent
SentHeaderLength == Len(MAGIC_HEADER) + 3 + 1 + Len(sent.profile) + 8 + NONCE_SIZE

\* System headers made and parsed; a packet cut inside its system header or
\* with a bit of its magic or version bytes flipped, given to an orchestrator
\* of any profile
NextHeader ==
    \/ \E nonce \in {Nonce1, Nonce2}, p \in ProfileNames, payload \in {<<>>, Message1} :
          ParseCreatedHeader(nonce, p, payload)
    \/ \E draw \in Draws : Encrypt(Message1, <<Key1>>, <<Nonce1>>, None, draw)
    \/ \E n \in 1..SentHeaderLength : Truncate(n)
    \/ \E pos \in 1..(Len(MAGIC_HEADER) + 3), bit \in TamperBits : Tamper(pos, bit)
    \/ \E new_profile \in ProfileNames : ChangeProfile(new_profile)
    \/ Decrypt(Key1)

SpecHeader == Init /\ [][NextHeader]_vars

\* Two encrypt calls with the same plaintext and master key, one after the other
NextTwice ==
    \/ \E nonce \in {<<Nonce1>>, <<Nonce2>>}, draw \in TwoDraws :
          Encrypt(Message1, <<Key1>>, nonce, None, draw)
    \/ \E nonce \in {<<Nonce1>>, <<Nonce2>>}, draw \in TwoDraws : EncryptAgain(nonce, draw)
    \/ Tick

SpecTwice == Init /\ [][NextTwice]_vars

\* encrypt with and without an operation_id, while the log file can and
\* cannot be written
NextLog ==
    \/ \E operation_id \in OperationIds, draw \in LogDraws :
          Encrypt(Message1, <<Key1>>, <<Nonce1>>, operation_id, draw)
    \/ \E master_key \in {Key1, Key2} : Decrypt(master_key)
    \/ \E new_profile \in ProfileNames : ChangeProfile(new_profile)
    \/ Tick

SpecLog == Init /\ [][NextLog]_vars

-----------------------------------------------------------------------------
(* Properties                                                              *)

\* The last call was decrypt on the packet as encrypt returned it, with the
\* master key encrypt used
DecryptedOwnPacket ==
    /\ result.op = "decrypt"
    /\ sent.packet # <<>>
    /\ result.args.ciphertext = sent.packet
    /\ result.args.master_key = sent.master_key

\* The lengths of the byte-level outputs of layers 1 to 5 are the lengths
\* encrypt_lengths computes
EncryptLengthsAgree ==
    (result.op = "encrypt" /\ result.ok) =>
        LET r == encrypt_lengths(Len(result.args.plaintext), Len(layer5.last_permutation))
        IN  /\ r.layer5.ok
            /\ \A k \in 1..4 : Len(trace[k].output.val) = r.lengths[k]
            /\ Len(trace[5].output.val) = r.layer5.val

\* C1: for every non-empty plaintext of any length, every 64-byte key, every
\* 32-byte nonce and every profile, encrypt returns a packet (which decrypt
\* turns back into the plaintext).  Here: the call gets through layer 5.
EncryptReturnsPacketForAnyLength ==
    result.op = "encrypt_length" => result.ok

\* C2: after any single bit of a valid packet was flipped, decrypt raises and
\* returns no result.
TamperedPacketRejected ==
    (result.op = "decrypt" /\ sent.packet # <<>> /\ result.args.ciphertext # sent.packet)
        => ~result.ok

\* The tag decrypt received does not match the tag recomputed over the
\* envelope it was given
TagMismatch ==
    /\ result.op = "decrypt"
    /\ trace # <<>>
    /\ LET u == L7_unpack_authenticated_data(layer7, trace[1].input)
       IN  /\ u.ok
           /\ u.val.tag # L7_compute_integrity_tag(
                               layer7, u.val.header \o u.val.ciphertext,
                               L7_derive_integrity_key(trace[1].key,
                                                       L7_parse_header(u.val.header).val.nonce))

\* C3: on decrypt the first layer step is layer 7, and when the recomputed
\* tag does not match the received one, decrypt raises, returns no bytes, and
\* none of layers 6 to 1 runs.
FailsClosedOnTagMismatch ==
    (result.op = "decrypt" /\ trace # <<>>) =>
        /\ trace[1].layer = 7
        /\ TagMismatch => (Len(trace) = 1 /\ ~result.ok /\ result.val = <<>>)

FailsClosedOnTagMismatchWitness ==
    TagMismatch /\ Len(trace) = 1 /\ ~result.ok

\* C4: when the orchestrator call raises inside encrypt_message,
\* decrypt_message or encrypt_file_data, the wrapper raises too (and so
\* returns neither the plaintext nor the undecrypted ciphertext).
WrapperPropagatesCoreError ==
    (result.op \in {"encrypt_message", "decrypt_message", "encrypt_file_data"}
        /\ ~result.core.ok) => ~result.ok

\* C5: a packet made under profile P is decrypted to the original plaintext
\* by an orchestrator configured for any profile Q, which is configured for
\* P afterwards.
DecryptReconfiguresAndRoundTrips ==
    DecryptedOwnPacket =>
        /\ result.ok
        /\ result.val = sent.plaintext
        /\ profile = sent.profile
        /\ config = SECURITY_PROFILES[sent.profile]
        /\ layer7 = L7_init(SECURITY_PROFILES[sent.profile].integrity_tag_size)

DecryptReconfiguresAndRoundTripsWitness ==
    /\ DecryptedOwnPacket
    /\ result.args.profile # sent.profile
    /\ result.ok
    /\ result.val = sent.plaintext
    /\ profile = sent.profile

\* C6: under profile P layer 5 performs P's configured number of rounds and
\* layer 6 uses P's configured noise ratio.
ProfileFixesLayerParameters ==
    (result.op = "encrypt" /\ result.ok) =>
        /\ Len(layer5.last_permutation) = config.swapper_rounds
        /\ L6_derive_noise_parameters(sent.keys[6], Slice(sent.nonce, 0, 16)).noise_ratio
               = config.noise_ratio

\* C7: decrypt rejects a packet whose layer-2 token is older than the
\* lifetime of the active profile.
TokenLifetimeEnforced ==
    (DecryptedOwnPacket /\ config.fernet_ttl # None
        /\ now - sent.time > config.fernet_ttl[1]) => ~result.ok

\* The arguments of an encrypt call that encrypt must refuse
InvalidEncryptArgs(args) ==
    \/ args.plaintext = <<>>
    \/ args.master_key # None /\ Len(args.master_key[1]) # MASTER_KEY_SIZE
    \/ args.nonce # None /\ Len(args.nonce[1]) # NONCE_SIZE

\* C8: encrypt with an empty plaintext, a supplied key that is not 64 bytes
\* or a supplied nonce that is not 32 bytes raises a validation error, runs
\* no layer and leaves the performance statistics (and the layers) as they were.
EncryptValidatesFirst ==
    [][(result'.op = "encrypt" /\ calls' = calls + 1 /\ InvalidEncryptArgs(result'.args))
          => /\ ~result'.ok
             /\ result'.err \in {"Plaintext cannot be empty", "Master key must be 64 bytes",
                                 "Nonce must be 32 bytes"}
             /\ trace' = <<>>
             /\ performance_stats' = performance_stats
             /\ UNCHANGED <<layer1, layer5, layer6, layer7, packet, sent>>]_vars

EncryptValidatesFirstWitness ==
    /\ result.op = "encrypt"
    /\ InvalidEncryptArgs(result.args)
    /\ ~result.ok
    /\ trace = <<>>

\* The layers of the steps of a call, in the order they ran
LayersOf(steps) == [k \in 1..Len(steps) |-> steps[k].layer]

\* Every step worked on the output of the step before it
Chained(steps) ==
    \A k \in 1..(Len(steps) - 1) : steps[k].output.ok /\ steps[k + 1].input = steps[k].output.val

\* C9: encrypt applies layers 1 to 7 in that order, decrypt layers 7 to 1,
\* each on the output of the layer before; decrypt uses for layer i the key
\* derived from its master key and the nonce of the packet header, which is
\* the key encrypt used.
LayerOrderAndKeys ==
    /\ (result.op = "encrypt" /\ result.ok) =>
           /\ LayersOf(trace) = <<1, 2, 3, 4, 5, 6, 7>>
           /\ trace[1].input = result.args.plaintext
           /\ Chained(trace)
           /\ From(packet, Len(packet) - Len(trace[7].output.val)) = trace[7].output.val
           /\ \A k \in 1..7 :
                  trace[k].key = derive_layer_keys(sent.master_key, sent.nonce).val[k]
    /\ (result.op = "decrypt" /\ trace # <<>>) =>
           /\ LayersOf(trace) = SubSeq(<<7, 6, 5, 4, 3, 2, 1>>, 1, Len(trace))
           /\ Chained(trace)
           /\ result.ok => (Len(trace) = 7 /\ result.val = trace[7].output.val)
           /\ \A k \in 1..Len(trace) :
                  trace[k].key =
                      derive_layer_keys(
                          result.args.master_key,
                          parse_system_header(result.args.ciphertext).val.nonce
                      ).val[trace[k].layer]
           /\ DecryptedOwnPacket =>
                  \A k \in 1..Len(trace) : trace[k].key = sent.keys[trace[k].layer]

LayerOrderAndKeysWitness ==
    /\ DecryptedOwnPacket
    /\ result.ok
    /\ LayersOf(trace) = <<7, 6, 5, 4, 3, 2, 1>>
    /\ \A k \in 1..7 : trace[k].key = sent.keys[trace[k].layer]

\* C10: after encrypt or decrypt returned, the layer objects hold no
\* substitution table, permutation or noise pattern of that call.
NoKeyMaterialRetained ==
    result.op \in {"encrypt", "decrypt"} =>
        /\ layer1 = L1_init
        /\ layer5 = L5_init
        /\ layer6 = L6_init

RECURSIVE SumLengths(_)
\* The sum of the plaintext lengths of the calls of threads 1..t
SumLengths(t) == IF t = 0 THEN 0 ELSE threads[t].length + SumLengths(t - 1)

\* C11: when all the concurrent encrypt calls on the shared instance have
\* returned, operations is their number and bytes_processed is the sum of their
\* plaintext lengths: no update of a counter is lost.
CountersSynchronized ==
    (\A t \in Threads : threads[t].pc = "done") =>
        /\ performance_stats.operations = MaxThreads
        /\ performance_stats.bytes_processed = SumLengths(MaxThreads)

\* C15: encrypt returns a packet that decrypt turns back into the plaintext
\* whether or not an operation_id is given, and also when the log entry of a
\* layer cannot be written.  Here: a call with a non-empty plaintext, a
\* 64-byte key and a 32-byte nonce returns a packet.
EncryptWorksWithoutLog ==
    (result.op = "encrypt" /\ ~InvalidEncryptArgs(result.args)) => result.ok

\* C12: when the same plaintext, master key and nonce are encrypted twice
\* under PERFORMANCE, the outputs of layers 1, 3, 4, 5 and 6 of the two calls
\* are the same bytes.
SameInputsSameLayerOutputs ==
    (result.op = "encrypt_again" /\ result.ok /\ profile = PERFORMANCE
        /\ result.args.nonce = <<result.first.nonce>>) =>
        \A k \in {1, 3, 4, 5, 6} : trace[k].output = result.first.trace[k].output

\* C16: two encrypt calls with the same plaintext, master key and profile and
\* different nonces return different packets.
DifferentNoncesDifferentPackets ==
    (result.op = "encrypt_again" /\ result.ok
        /\ result.args.nonce # <<result.first.nonce>>) =>
        result.val # result.first.packet

DifferentNoncesDifferentPacketsWitness ==
    /\ result.op = "encrypt_again"
    /\ result.ok
    /\ result.args.nonce # <<result.first.nonce>>
    /\ result.first.time = now
    /\ result.val # result.first.packet

\* C13: _parse_system_header applied to _create_system_header(nonce, profile)
\* followed by any payload returns version "1.0", the profile name, the nonce
\* and the header length 6 + 3 + 1 + len(profile) + 8 + 32; the bytes are laid
\* out as magic, version, profileLen, profileName, timestamp, nonce, payload.
HeaderRoundTrips ==
    result.op = "parse_system_header" =>
        LET data == result.args.data
            n    == Len(result.args.profile)
        IN  /\ result.ok
            /\ result.val.version = VERSION
            /\ result.val.profile = result.args.profile
            /\ result.val.nonce = result.args.nonce
            /\ result.val.timestamp = result.args.time
            /\ result.val.header_length = 6 + 3 + 1 + n + 8 + 32
            /\ Slice(data, 0, 6) = MAGIC_HEADER
            /\ Slice(data, 6, 9) = VERSION
            /\ data[10] = n
            /\ Slice(data, 10, 10 + n) = result.args.profile
            /\ Slice(data, 10 + n, 18 + n) = PackQ(result.args.time)
            /\ Slice(data, 18 + n, 50 + n) = result.args.nonce
            /\ From(data, 50 + n) = result.args.payload

HeaderRoundTripsWitness ==
    /\ result.op = "parse_system_header"
    /\ result.ok
    /\ result.args.payload # <<>>
    /\ result.val.profile = PERFORMANCE
    /\ result.val.nonce = Nonce2
    /\ result.val.header_length = 61

\* The packet under way is cut inside the system header of the packet that
\* was sent, or its magic bytes or its version bytes are not the code's
MalformedHeader ==
    /\ packet # <<>>
    /\ sent.packet # <<>>
    /\ \/ Len(packet) < SentHeaderLength
       \/ Slice(packet, 0, 6) # MAGIC_HEADER
       \/ Slice(packet, 6, 9) # VERSION

\* C14: decrypt of a packet whose system header is truncated, has the wrong
\* magic or an unsupported version raises, runs no layer and leaves the
\* profile, the configuration, the layer objects and the statistics of the
\* orchestrator as they were.
RejectsMalformedHeader ==
    [][(result'.op = "decrypt" /\ calls' = calls + 1 /\ MalformedHeader)
          => /\ ~result'.ok
             /\ result'.val = <<>>
             /\ trace' = <<>>
             /\ UNCHANGED <<profile, config, layer1, layer5, layer6, layer7,
                            performance_stats>>]_vars

RejectsMalformedHeaderWitness ==
    /\ result.op = "decrypt"
    /\ ~result.ok
    /\ trace = <<>>
    /\ sent.packet # <<>>
    /\ result.args.ciphertext = packet
    /\ Slice(packet, 0, 6) # MAGIC_HEADER
    /\ profile # sent.profile

\* The tag layer 7 received in the last decrypt and the tag it recomputed
ReceivedTag ==
    L7_unpack_authenticated_data(layer7, trace[1].input).val.tag

ExpectedTag ==
    LET u == L7_unpack_authenticated_data(layer7, trace[1].input).val
    IN  L7_compute_integrity_tag(
            layer7, u.header \o u.ciphertext,
            L7_derive_integrity_key(trace[1].key, L7_parse_header(u.header).val.nonce))

\* The bytes layer 7 compared in the last decrypt
TagComparisonSteps ==
    LET u == L7_unpack_authenticated_data(layer7, trace[1].input).val
    IN  L7_verify_steps(
            layer7, u.header \o u.ciphertext, u.tag,
            L7_derive_integrity_key(trace[1].key, L7_parse_header(u.header).val.nonce))

\* The number of leading bytes of a that are those of b
LeadingEqual(a, b) ==
    LET differ == {i \in 1..Min(Len(a), Len(b)) : a[i] # b[i]}
    IN  IF differ = {} THEN Min(Len(a), Len(b))
        ELSE (CHOOSE i \in differ : \A j \in differ : i <= j) - 1

\* C17: when decrypt rejects a packet for its tag, the comparison of the
\* received tag with the recomputed one has visited every byte of the tag,
\* however many leading bytes of the received tag are correct.
TagComparedInConstantTime ==
    TagMismatch => (~result.ok /\ TagComparisonSteps = layer7.tag_size)

TagComparedInConstantTimeWitness ==
    /\ TagMismatch
    /\ ~result.ok
    /\ LeadingEqual(ReceivedTag, ExpectedTag) >= 8
    /\ LeadingEqual(ReceivedTag, ExpectedTag) < layer7.tag_size
    /\ TagComparisonSteps = layer7.tag_size

\* C18: in every state the calls can reach, the active profile is one of
\* MAXIMUM, BALANCED and PERFORMANCE, config is that profile's parameter set,
\* and the tag size of the layer 7 object is config's integrity_tag_size.
ProfileConfigLayersAgree ==
    /\ profile \in ProfileNames
    /\ config = SECURITY_PROFILES[profile]
    /\ layer7.tag_size = config.integrity_tag_size

\* C19: a decrypt call that raises leaves the profile, the configuration and
\* the layer objects of the orchestrator as they were before the call.
FailedDecryptChangesNothing ==
    [][(result'.op = "decrypt" /\ calls' = calls + 1 /\ ~result'.ok)
          => UNCHANGED <<profile, config, layer1, layer5, layer6, layer7>>]_vars

\* C20: for every plaintext length the orchestrator accepts and every round
\* count layer 5 can derive, the permutation info of layer 5, 2 + 2*N*B bytes
\* for N rounds over B blocks, is at most 65535 bytes long.
PermutationInfoFits ==
    result.op = "encrypt_length" =>
        L5_permutation_info_length(trace[4], result.args.num_rounds) <= 65535

\* C21: everything encrypt_stream yields for chunks c1..cn, joined in order,
\* is an envelope that layer 3 decrypt maps back to c1 || ... || cn with the
\* same key and nonce, and it is the byte string encrypt(c1 || ... || cn)
\* returns.
StreamIsOneShotEnvelope ==
    result.op = "l3_encrypt_stream" =>
        /\ result.decrypted = Ok(Join(result.args.data_stream))
        /\ result.one_shot = Ok(result.val)

\* C22: decrypt of an envelope of layer 1, 3, 5 or 6 with another key or
\* another nonce than the ones of encrypt does not return the original data;
\* layers 2 and 4 are given no nonce on decrypt and return the original data
\* under the key of encrypt.
LayersNeedKeyAndNonce ==
    result.op = "layer_round_trip" =>
        /\ (result.args.layer \in {1, 3, 5, 6}
               /\ <<result.args.master_key2, result.args.nonce2>>
                      # <<result.args.master_key, result.args.nonce>>)
              => result.decrypted # Ok(result.args.data)
        /\ (result.args.layer \in {2, 4}
               /\ result.args.master_key2 = result.args.master_key)
              => result.decrypted = Ok(result.args.data)

\* C23: the padding of layer 5 adds at least one full block: the padded
\* length minus the input length is at least 16, for every input length.
PaddingAddsFullBlock ==
    result.op = "l5_pad_to_blocks" =>
        Len(result.val) - Len(result.args.data) >= BLOCK_SIZE

\* The round count recorded in an envelope of layer 5
\* ([orig_len:4][perm_len:2][num_rounds:2]...) and its shuffled blocks
RecordedRounds(envelope) == UnpackH(Slice(envelope, 6, 8))
ShuffledBlocks(envelope) == From(envelope, 6 + UnpackH(Slice(envelope, 4, 6)))

\* C24: layer 5 decrypt returns exactly the input of encrypt, for every
\* non-empty input, whatever the round count (3 to 16) and the number of
\* blocks, a single block included.
SwapperRoundTrips ==
    (result.op = "layer_round_trip" /\ result.args.layer = 5) =>
        /\ RecordedRounds(result.val) \in MIN_ROUNDS..MAX_ROUNDS
        /\ result.decrypted = Ok(result.args.data)

SwapperRoundTripsWitness ==
    /\ result.op = "layer_round_trip"
    /\ result.args.layer = 5
    /\ RecordedRounds(result.val) = MAX_ROUNDS
    /\ Len(ShuffledBlocks(result.val)) = 3 * BLOCK_SIZE
    /\ Slice(ShuffledBlocks(result.val), 0, Len(result.args.data)) # result.args.data
    /\ result.decrypted = Ok(result.args.data)

\* The noise bytes of the pattern layer 6 generated last, and the ratio it
\* derived (in units of 1/RATIO_ONE) for the call in result
NoiseInserted == L6_sum_noise(layer6.last_pattern, 1)
DerivedRatio  ==
    L6_derive_noise_parameters(result.args.master_key, result.args.nonce).noise_ratio
NoiseEmbedded == result.op = "layer_round_trip" /\ result.args.layer = 6

\* C25: for every non-empty input of length L and derived ratio r in
\* [0.1, 0.5], the insertion pattern of layer 6 inserts in total at least
\* r * L noise bytes and at least 8 bytes.
PatternCoversRatio ==
    NoiseEmbedded =>
        /\ DerivedRatio \in MIN_NOISE_RATIO..MAX_NOISE_RATIO
        /\ NoiseInserted * RATIO_ONE >= Len(result.args.data) * DerivedRatio
        /\ NoiseInserted >= NOISE_BLOCK_SIZE

\* C25, amended: the pattern inserts max(floor(r * L), 8) noise bytes: at least
\* 8 and more than r * L - 1.
PatternCoversRatioRoundedDown ==
    NoiseEmbedded =>
        /\ DerivedRatio \in MIN_NOISE_RATIO..MAX_NOISE_RATIO
        /\ NoiseInserted = Max((Len(result.args.data) * DerivedRatio) \div RATIO_ONE,
                               NOISE_BLOCK_SIZE)
        /\ NoiseInserted * RATIO_ONE > Len(result.args.data) * DerivedRatio - RATIO_ONE
        /\ NoiseInserted >= NOISE_BLOCK_SIZE

PatternCoversRatioRoundedDownWitness ==
    /\ NoiseEmbedded
    /\ NoiseInserted > NOISE_BLOCK_SIZE
    /\ Len(layer6.last_pattern) > 1
    /\ NoiseInserted * RATIO_ONE < Len(result.args.data) * DerivedRatio

\* C26: the noise map of layer 6 drives exact removal: decrypt(encrypt(x, k,
\* n), k, n) = x for every non-empty x, inputs shorter than the 8-byte chunk
\* and patterns with repeated insertion positions included.
NoiseRoundTrips ==
    (NoiseEmbedded /\ result.args.master_key2 = result.args.master_key
                   /\ result.args.nonce2 = result.args.nonce) =>
        result.decrypted = Ok(result.args.data)

NoiseRoundTripsWitness ==
    /\ NoiseEmbedded
    /\ result.args.master_key2 = result.args.master_key
    /\ result.args.nonce2 = result.args.nonce
    /\ \E i, j \in 1..Len(layer6.last_pattern) :
          i < j /\ layer6.last_pattern[i][1] = layer6.last_pattern[j][1]
    /\ result.decrypted = Ok(result.args.data)

\* The tables layer 1 holds were built by _create_substitution_table
TablesBuilt == layer1 # L1_init

\* C27: for every key of at least 32 bytes and nonce of at least 16 bytes, the
\* substitution table layer 1 builds by the keyed Fisher-Yates shuffle is a
\* bijection on 0..255, and the stored inverse table satisfies
\* inverse[table[b]] = b for every byte value b.
SubstitutionTableIsBijection ==
    TablesBuilt =>
        /\ Len(layer1.substitution_table) = 256
        /\ Len(layer1.inverse_table) = 256
        /\ {layer1.substitution_table[b + 1] : b \in 0..255} = 0..255
        /\ \A b \in 0..255 :
              layer1.inverse_table[layer1.substitution_table[b + 1] + 1] = b

SubstitutionTableIsBijectionWitness ==
    /\ result.op = "layer_round_trip"
    /\ result.args.layer = 1
    /\ Len(result.args.master_key2) = 32
    /\ Len(result.args.nonce2) = 16
    /\ TablesBuilt
    /\ \E b \in 0..255 : layer1.substitution_table[b + 1] # b
    /\ result.decrypted = Ok(result.args.data)

\* The last call was decrypt_message_with_pfs for a message of
\* encrypted_messages
KeyRequested == pfs_result.op = "decrypt_message_with_pfs"

\* C28: for every message sent in a PFS session, the key the receiving side
\* obtains from decrypt_message_with_pfs (ratchet_decrypt), given the header of
\* the message, is the message key ratchet_encrypt produced for it.
ReceivedKeyIsSentKey ==
    KeyRequested =>
        /\ pfs_result.ok
        /\ hex(pfs_result.val) = encrypted_messages[pfs_result.args.message].ephemeral_key

\* C30: a ratchet restored from the persisted state behaves like the original:
\* after the session is reloaded from the database (load_state of the stored
\* get_state), ratchet_decrypt on the next incoming message succeeds and derives
\* the message key the ratchet that was never persisted derives.
RestoredRatchetDerivesSameKey ==
    (KeyRequested /\ pfs_result.reloaded /\ pfs_result.never_restarted.ok) =>
        /\ pfs_result.ok
        /\ pfs_result.val = pfs_result.never_restarted.val

\* Every send has stored its message and the cleanup thread sleeps between
\* two passes
SendsAndCleanupFinished ==
    /\ \A t \in Senders : requests[t] = "idle"
    /\ cleanup.pc = "sleep"

\* C29: every stored message of a conversation whose sender has a self-destruct
\* timer set is covered by a conversation timer: under any interleaving of
\* sends (timer upsert, then message insert) with the cleanup (read the expired
\* timers, delete messages, delete files, delete the timer), once both have
\* finished, messages of the conversation remain stored only if a
\* conversation_timers entry for it exists.
StoredMessagesHaveTimer ==
    SendsAndCleanupFinished =>
        \A m \in messages :
            \E d \in conversation_timers :
                BetweenUsers(m, d.user1_id, d.user2_id)

====
